---- MODULE Spec2Model ----
(***************************************************************************)
(* Converter-Singbox: the link-to-outbound translator of src/main.py.      *)
(*                                                                         *)
(* src/main.py holds two deployments of the same translator: the HTML form *)
(* handler (lines 29-471, "form") and the JSON handler (lines 474-843,     *)
(* "json").  The model carries both; `variant` says which one a behaviour  *)
(* runs.                                                                   *)
(*                                                                         *)
(* Python values are represented as follows.                               *)
(*   str            a TLA+ string (TLC evaluates Len, SubSeq and \o on it) *)
(*   list           a TLA+ sequence                                        *)
(*   dict           a TLA+ record; "k" \in DOMAIN d is `"k" in d`          *)
(*   a JSON value of unknown type (a field of a decoded VMess object, the  *)
(*   `outbounds` value of a template entry) a one-field record that names  *)
(*   its type: [s |-> "x"], [n |-> 1], [b |-> TRUE], [null |-> TRUE],      *)
(*   [list |-> <<...>>]                                                    *)
(*   an object      a reference into `objs`, so that two names bound to    *)
(*                  the same dict see each other's mutations               *)
(***************************************************************************)
EXTENDS Integers, Sequences, FiniteSets, TLC

(***************************************************************************)
(* Python str methods.                                                     *)
(***************************************************************************)
Ch(s, i) == SubSeq(s, i, i)

Min(S) == CHOOSE x \in S : \A y \in S : x <= y

\* s.startswith(p)
startswith(s, p) == Len(s) >= Len(p) /\ SubSeq(s, 1, Len(p)) = p

\* s.find(sub, from) with 1-based indices; 0 when sub does not occur
find(s, sub, from) ==
    LET hits == {i \in from..(Len(s) - Len(sub) + 1) : SubSeq(s, i, i + Len(sub) - 1) = sub}
    IN  IF hits = {} THEN 0 ELSE Min(hits)

\* sub in s
contains(s, sub) == find(s, sub, 1) # 0

RECURSIVE replace(_, _, _)
\* s.replace(old, new): every non-overlapping occurrence, left to right
replace(s, old, new) ==
    LET i == find(s, old, 1)
    IN  IF i = 0 THEN s
        ELSE SubSeq(s, 1, i - 1) \o new \o replace(SubSeq(s, i + Len(old), Len(s)), old, new)

RECURSIVE split(_, _)
\* s.split(sep): the list of the pieces, [""] for the empty string
split(s, sep) ==
    LET i == find(s, sep, 1)
    IN  IF i = 0 THEN <<s>>
        ELSE <<SubSeq(s, 1, i - 1)>> \o split(SubSeq(s, i + Len(sep), Len(s)), sep)

\* s.split(sep, 1): at most one cut, at the first sep
split1(s, sep) ==
    LET i == find(s, sep, 1)
    IN  IF i = 0 THEN <<s>>
        ELSE <<SubSeq(s, 1, i - 1), SubSeq(s, i + Len(sep), Len(s))>>

Whitespace == {" ", "\t", "\r", "\n"}

\* s.strip()
strip(s) ==
    LET keep == {i \in 1..Len(s) : Ch(s, i) \notin Whitespace}
    IN  IF keep = {} THEN ""
        ELSE SubSeq(s, Min(keep), CHOOSE j \in keep : \A k \in keep : k <= j)

Digits == "0123456789"

IsDigit(c) == Len(c) = 1 /\ contains(Digits, c)

RECURSIVE int_of_digits(_)
\* the value of a non-empty run of decimal digits
int_of_digits(s) ==
    IF Len(s) = 0 THEN 0
    ELSE 10 * int_of_digits(SubSeq(s, 1, Len(s) - 1)) + (find(Digits, Ch(s, Len(s)), 1) - 1)

\* int(s) of a str: the value, or ValueError (ok = FALSE).  Surrounding
\* whitespace and one sign are accepted, as Python does.
int_str(s) ==
    LET t == strip(s)
        neg == startswith(t, "-")
        body == IF neg \/ startswith(t, "+") THEN SubSeq(t, 2, Len(t)) ELSE t
    IN  IF Len(body) > 0 /\ \A i \in 1..Len(body) : IsDigit(Ch(body, i))
        THEN [ok |-> TRUE, value |-> IF neg THEN 0 - int_of_digits(body) ELSE int_of_digits(body)]
        ELSE [ok |-> FALSE, value |-> 0]

(***************************************************************************)
(* urllib.parse and base64 (standard library, as called by src/main.py).   *)
(***************************************************************************)
\* chr(32) .. chr(95)
AsciiLow == " !\"#$%&'()*+,-./0123456789:;<=>?@ABCDEFGHIJKLMNOPQRSTUVWXYZ[\\]^_"

\* chr(97) .. chr(126).  chr(96), the backquote, cannot be written in a
\* TLA+ string: no input of the model holds it.
AsciiHigh == "abcdefghijklmnopqrstuvwxyz{|}~"

\* a character outside ASCII (any code point above U+007F)
NonAscii == "§"

\* bytes([b]).decode(): the character of one byte.  A byte above 0x7F is
\* part of a multi-byte UTF-8 character: its lead byte gives the character
\* and its continuation bytes give nothing.
chr(b) ==
    IF b >= 32 /\ b <= 95 THEN Ch(AsciiLow, b - 31)
    ELSE IF b >= 97 /\ b <= 126 THEN Ch(AsciiHigh, b - 96)
    ELSE IF b = 9 THEN "\t"
    ELSE IF b = 10 THEN "\n"
    ELSE IF b = 13 THEN "\r"
    ELSE IF b >= 192 THEN NonAscii
    ELSE ""

HexDigits == "0123456789ABCDEF"

HexLower == "0123456789abcdef"

IsHex(c) == Len(c) = 1 /\ (contains(HexDigits, c) \/ contains(HexLower, c))

hexval(c) == IF contains(HexDigits, c) THEN find(HexDigits, c, 1) - 1 ELSE find(HexLower, c, 1) - 1

RECURSIVE unquote(_)
\* urllib.parse.unquote(s): every %XX becomes its byte, a % that is not
\* followed by two hex digits stays
unquote(s) ==
    LET i == find(s, "%", 1)
    IN  IF i = 0 THEN s
        ELSE IF i + 2 <= Len(s) /\ IsHex(Ch(s, i + 1)) /\ IsHex(Ch(s, i + 2))
             THEN SubSeq(s, 1, i - 1) \o chr(16 * hexval(Ch(s, i + 1)) + hexval(Ch(s, i + 2)))
                      \o unquote(SubSeq(s, i + 3, Len(s)))
             ELSE SubSeq(s, 1, i) \o unquote(SubSeq(s, i + 1, Len(s)))

RECURSIVE qsl_pairs(_, _)
\* the loop of urllib.parse.parse_qsl over the pieces between "&": a piece
\* without "=" or with an empty value is dropped (keep_blank_values=False),
\* "+" is a space, name and value are unquoted
qsl_pairs(pieces, i) ==
    IF i > Len(pieces) THEN <<>>
    ELSE LET nv == split1(pieces[i], "=")
         IN  IF Len(nv) = 2 /\ Len(nv[2]) > 0
             THEN <<[name |-> unquote(replace(nv[1], "+", " ")),
                     value |-> unquote(replace(nv[2], "+", " "))]>> \o qsl_pairs(pieces, i + 1)
             ELSE qsl_pairs(pieces, i + 1)

\* urllib.parse.parse_qsl(qs)
parse_qsl(qs) == IF qs = "" THEN <<>> ELSE qsl_pairs(split(qs, "&"), 1)

\* dict(pairs): a later pair replaces an earlier one of the same name.  The
\* dict is kept as the list of pairs; has and get read it as a dict.
has(params, k) == \E i \in 1..Len(params) : params[i].name = k

\* params.get(k, default)
get(params, k, default) ==
    IF has(params, k)
    THEN params[CHOOSE i \in 1..Len(params) :
                    params[i].name = k /\ \A j \in (i + 1)..Len(params) : params[j].name # k].value
    ELSE default

B64Alphabet == "ABCDEFGHIJKLMNOPQRSTUVWXYZabcdefghijklmnopqrstuvwxyz0123456789+/"

RECURSIVE filter_chars(_, _)
\* the characters of s that occur in keep, in their order (by halves, which
\* keeps the evaluation shallow on a long payload)
filter_chars(s, keep) ==
    IF Len(s) = 0 THEN ""
    ELSE IF Len(s) = 1 THEN (IF contains(keep, s) THEN s ELSE "")
    ELSE filter_chars(SubSeq(s, 1, Len(s) \div 2), keep)
            \o filter_chars(SubSeq(s, Len(s) \div 2 + 1, Len(s)), keep)

\* binascii.a2b_base64, non-strict: characters outside the alphabet are
\* skipped; "=" ends the data once the open quad holds 3 characters, or holds
\* 2 and this is the second "=" after them; at the end of the input an open
\* quad is an error.  vals are the 6-bit values read.
b64scan(s) ==
    LET clean == filter_chars(s, B64Alphabet \o "=")
        ndata(k) == Cardinality({j \in 1..k : Ch(clean, j) # "="})
        stops == {k \in 1..Len(clean) :
                    /\ Ch(clean, k) = "="
                    /\ \/ ndata(k) % 4 = 3
                       \/ ndata(k) % 4 = 2 /\ k > 1 /\ Ch(clean, k - 1) = "="}
        data == filter_chars(IF stops = {} THEN clean ELSE SubSeq(clean, 1, Min(stops) - 1), B64Alphabet)
    IN  [ok |-> stops # {} \/ Len(data) % 4 = 0,
         vals |-> [k \in 1..Len(data) |-> find(B64Alphabet, Ch(data, k), 1) - 1]]

\* the k-th byte (1-based) of the 6-bit values
b64byte(vals, k) ==
    LET g == 4 * ((k - 1) \div 3)
        p == (k - 1) % 3
    IN  IF p = 0 THEN vals[g + 1] * 4 + vals[g + 2] \div 16
        ELSE IF p = 1 THEN (vals[g + 2] % 16) * 16 + vals[g + 3] \div 4
        ELSE (vals[g + 3] % 4) * 64 + vals[g + 4]

b64nbytes(vals) ==
    3 * (Len(vals) \div 4) + (IF Len(vals) % 4 = 2 THEN 1 ELSE IF Len(vals) % 4 = 3 THEN 2 ELSE 0)

RECURSIVE bytes_decode(_, _, _)
\* bytes.decode('utf-8') of the bytes lo..hi of the values (by halves)
bytes_decode(vals, lo, hi) ==
    IF lo > hi THEN ""
    ELSE IF lo = hi THEN chr(b64byte(vals, lo))
    ELSE bytes_decode(vals, lo, (lo + hi) \div 2) \o bytes_decode(vals, (lo + hi) \div 2 + 1, hi)

\* a continuation byte that follows no lead byte, or a lead byte that no
\* continuation byte follows, is a UnicodeDecodeError
utf8_ok(vals) ==
    \A k \in 1..b64nbytes(vals) :
        LET b == b64byte(vals, k)
        IN  /\ (b >= 128 /\ b < 192) => (k > 1 /\ b64byte(vals, k - 1) >= 128)
            /\ b >= 192 => (k < b64nbytes(vals) /\ b64byte(vals, k + 1) >= 128
                                /\ b64byte(vals, k + 1) < 192)

\* base64.b64decode(s).decode('utf-8'): the text, or an exception (ok = FALSE)
b64decode_bytes(r) ==
    IF r.ok /\ utf8_ok(r.vals) THEN [ok |-> TRUE, text |-> bytes_decode(r.vals, 1, b64nbytes(r.vals))]
    ELSE [ok |-> FALSE, text |-> ""]

b64decode_utf8(s) == b64decode_bytes(b64scan(s))

(***************************************************************************)
(* JSON values decoded from a VMess payload.                               *)
(***************************************************************************)
None == [null |-> TRUE]

Str(x) == [s |-> x]

Num(x) == [n |-> x]

Bool(x) == [b |-> x]

IsStr(v) == "s" \in DOMAIN v

\* v == "text" for a JSON value v
eq_str(v, text) == IsStr(v) /\ v.s = text

\* bool(v): None, "", 0 and False are falsy
truthy(v) ==
    IF "s" \in DOMAIN v THEN v.s # ""
    ELSE IF "n" \in DOMAIN v THEN v.n # 0
    ELSE IF "b" \in DOMAIN v THEN v.b
    ELSE FALSE

\* str(v), as an f-string formats v
py_str(v) ==
    IF "s" \in DOMAIN v THEN v.s
    ELSE IF "n" \in DOMAIN v THEN ToString(v.n)
    ELSE IF "b" \in DOMAIN v THEN (IF v.b THEN "True" ELSE "False")
    ELSE "None"

\* int(v): the integer, or TypeError / ValueError (ok = FALSE)
py_int(v) ==
    IF "s" \in DOMAIN v THEN int_str(v.s)
    ELSE IF "n" \in DOMAIN v THEN [ok |-> TRUE, value |-> v.n]
    ELSE IF "b" \in DOMAIN v THEN [ok |-> TRUE, value |-> IF v.b THEN 1 ELSE 0]
    ELSE [ok |-> FALSE, value |-> 0]

\* d.get(k, default) of a decoded JSON object
jget(d, k, default) == IF k \in DOMAIN d THEN d[k] ELSE default

(***************************************************************************)
(* json.loads on the payloads of the model: a JSON object whose values are *)
(* strings without escapes, integers, true, false and null.  A text that   *)
(* is no such object is a JSONDecodeError (ok = FALSE); a text that is     *)
(* JSON but no object makes the first .get raise, which ends the handler   *)
(* in the same `except`.                                                   *)
(***************************************************************************)
\* the character at i, "" past the end
At(s, i) == IF i >= 1 /\ i <= Len(s) THEN Ch(s, i) ELSE ""

\* the first index at or after i that holds no whitespace
json_skip(s, i) == Min({j \in i..(Len(s) + 1) : At(s, j) \notin Whitespace})

\* the first index at or after i that holds no digit
json_digits_end(s, i) == Min({j \in i..(Len(s) + 1) : ~IsDigit(At(s, j))})

JsonFail == [ok |-> FALSE, value |-> None, next |-> 0]

\* the string literal that opens at i and closes at close
json_string_to(s, i, close) ==
    IF close = 0 \/ contains(SubSeq(s, i + 1, close - 1), "\\") THEN JsonFail
    ELSE [ok |-> TRUE, value |-> Str(SubSeq(s, i + 1, close - 1)), next |-> close + 1]

json_string(s, i) ==
    IF At(s, i) # "\"" THEN JsonFail ELSE json_string_to(s, i, find(s, "\"", i + 1))

\* the integer whose digits are s[from..end-1]: no leading zero, no fraction
\* and no exponent
json_int(s, sign, from, end) ==
    IF end = from \/ (At(s, from) = "0" /\ end > from + 1) \/ At(s, end) \in {".", "e", "E"}
    THEN JsonFail
    ELSE [ok |-> TRUE, value |-> Num(sign * int_of_digits(SubSeq(s, from, end - 1))), next |-> end]

json_number(s, i) ==
    IF At(s, i) = "-" THEN json_int(s, 0 - 1, i + 1, json_digits_end(s, i + 1))
    ELSE json_int(s, 1, i, json_digits_end(s, i))

\* the value that starts at i
json_value(s, i) ==
    IF At(s, i) = "\"" THEN json_string(s, i)
    ELSE IF At(s, i) = "-" \/ IsDigit(At(s, i)) THEN json_number(s, i)
    ELSE IF SubSeq(s, i, Min({Len(s), i + 3})) = "true" THEN [ok |-> TRUE, value |-> Bool(TRUE), next |-> i + 4]
    ELSE IF SubSeq(s, i, Min({Len(s), i + 4})) = "false" THEN [ok |-> TRUE, value |-> Bool(FALSE), next |-> i + 5]
    ELSE IF SubSeq(s, i, Min({Len(s), i + 3})) = "null" THEN [ok |-> TRUE, value |-> None, next |-> i + 4]
    ELSE JsonFail

RECURSIVE json_members(_, _, _)
\* after a member: "," and the next member, or "}".  A later member
\* replaces an earlier one of the same name.
json_member_end(s, members, after) ==
    IF At(s, after) = "," THEN json_members(s, json_skip(s, after + 1), members)
    ELSE IF At(s, after) = "}" THEN [ok |-> TRUE, value |-> members, next |-> after + 1]
    ELSE JsonFail

json_member_value(s, key, val, members) ==
    IF ~val.ok THEN JsonFail
    ELSE json_member_end(s, (key.value.s :> val.value) @@ members, json_skip(s, val.next))

json_member_colon(s, key, colon, members) ==
    IF At(s, colon) # ":" THEN JsonFail
    ELSE json_member_value(s, key, json_value(s, json_skip(s, colon + 1)), members)

json_member_key(s, key, members) ==
    IF ~key.ok THEN JsonFail ELSE json_member_colon(s, key, json_skip(s, key.next), members)

\* the members "name": value, ... } from i on, added to members
json_members(s, i, members) == json_member_key(s, json_string(s, i), members)

\* the object that opens at i
json_object(s, i) ==
    IF At(s, i) # "{" THEN JsonFail
    ELSE IF At(s, json_skip(s, i + 1)) = "}" THEN [ok |-> TRUE, value |-> <<>>, next |-> json_skip(s, i + 1) + 1]
    ELSE json_members(s, json_skip(s, i + 1), <<>>)

\* nothing but whitespace may follow the object
json_document(s, obj) ==
    IF obj.ok /\ json_skip(s, obj.next) > Len(s) THEN [ok |-> TRUE, value |-> obj.value]
    ELSE [ok |-> FALSE, value |-> None]

json_loads(text) == json_document(text, json_object(text, json_skip(text, 1)))

(***************************************************************************)
(* Transport builders.                                                     *)
(***************************************************************************)
\* [vmess_config.get("host")] if vmess_config.get("host") else []
vmess_host_list(vmess_config) ==
    IF truthy(jget(vmess_config, "host", None)) THEN <<jget(vmess_config, "host", None)>> ELSE <<>>

vmess_http_transport(vmess_config) ==
    [type |-> "http", host |-> vmess_host_list(vmess_config), path |-> jget(vmess_config, "path", Str("/"))]

\* a builder without the inner-type branch: tcp is always plain
get_vmess_transport_plain(vmess_config) ==
    IF eq_str(jget(vmess_config, "net", Str("tcp")), "ws")
    THEN [type |-> "ws", path |-> jget(vmess_config, "path", Str("/")),
          headers |-> [Host |-> jget(vmess_config, "host", Str(""))]]
    ELSE IF eq_str(jget(vmess_config, "net", Str("tcp")), "grpc")
    THEN [type |-> "grpc", service_name |-> jget(vmess_config, "path", Str(""))]
    ELSE IF eq_str(jget(vmess_config, "net", Str("tcp")), "http") THEN vmess_http_transport(vmess_config)
    ELSE [type |-> "tcp"]

get_vmess_transport_config(vmess_config) ==
    LET network == jget(vmess_config, "net", Str("tcp"))
    IN  IF eq_str(network, "ws")
        THEN [type |-> "ws", path |-> jget(vmess_config, "path", Str("/")),
              headers |-> [Host |-> jget(vmess_config, "host", Str(""))]]
        ELSE IF eq_str(network, "grpc")
        THEN [type |-> "grpc", service_name |-> jget(vmess_config, "path", Str(""))]
        ELSE IF eq_str(network, "http") THEN vmess_http_transport(vmess_config)
        ELSE IF eq_str(network, "tcp")
        THEN IF eq_str(jget(vmess_config, "type", None), "http")
             THEN vmess_http_transport(vmess_config)
             ELSE [type |-> "tcp"]
        ELSE [type |-> "tcp"]

get_vless_transport_config(type_param, host, path) ==
    IF type_param = "ws" THEN [type |-> "ws", path |-> path, headers |-> [Host |-> host]]
    ELSE IF type_param = "grpc" THEN [type |-> "grpc", service_name |-> path]
    ELSE IF type_param = "http"
    THEN [type |-> "http", host |-> IF host # "" THEN <<host>> ELSE <<>>,
          path |-> IF path # "" THEN path ELSE "/"]
    ELSE [type |-> "tcp"]

get_trojan_transport_config(type_param, host, path) ==
    IF type_param = "ws" THEN [type |-> "ws", path |-> path, headers |-> [Host |-> host]]
    ELSE IF type_param = "grpc" THEN [type |-> "grpc", service_name |-> path]
    ELSE IF type_param = "http"
    THEN [type |-> "http", host |-> IF host # "" THEN <<host>> ELSE <<>>,
          path |-> IF path # "" THEN path ELSE "/"]
    ELSE [type |-> "tcp"]

(***************************************************************************)
(* The URL grammar of the vless, trojan and ss handlers:                   *)
(*   ^<prefix>([^@]+)@([^:]+):(\d+)(?:\?(.+?))?(?:#(.+))?$                 *)
(* (the vless pattern has \?(.+?) without the enclosing optional group).   *)
(* A group that takes no part in the match is None: has_query and          *)
(* has_fragment say which did.                                             *)
(***************************************************************************)
NoMatch ==
    [ok |-> FALSE, user |-> "", server |-> "", port |-> "", has_query |-> FALSE, query |-> "",
     has_fragment |-> FALSE, fragment |-> ""]

\* what follows the port: nothing, ?query, #fragment or ?query#fragment.
\* The lazy (.+?) ends at the first "#" that leaves it one character at
\* least and has one character at least after it.
rest_match(rest, query_required) ==
    IF rest = "" THEN [ok |-> ~query_required, has_query |-> FALSE, query |-> "",
                       has_fragment |-> FALSE, fragment |-> ""]
    ELSE IF Ch(rest, 1) = "?"
    THEN LET t == SubSeq(rest, 2, Len(rest))
             cuts == {j \in 2..(Len(t) - 1) : Ch(t, j) = "#"}
         IN  IF t = "" THEN [ok |-> FALSE, has_query |-> FALSE, query |-> "",
                            has_fragment |-> FALSE, fragment |-> ""]
             ELSE IF cuts = {} THEN [ok |-> TRUE, has_query |-> TRUE, query |-> t,
                                     has_fragment |-> FALSE, fragment |-> ""]
             ELSE [ok |-> TRUE, has_query |-> TRUE, query |-> SubSeq(t, 1, Min(cuts) - 1),
                   has_fragment |-> TRUE, fragment |-> SubSeq(t, Min(cuts) + 1, Len(t))]
    ELSE IF Ch(rest, 1) = "#" /\ ~query_required /\ Len(rest) >= 2
    THEN [ok |-> TRUE, has_query |-> FALSE, query |-> "",
          has_fragment |-> TRUE, fragment |-> SubSeq(rest, 2, Len(rest))]
    ELSE [ok |-> FALSE, has_query |-> FALSE, query |-> "", has_fragment |-> FALSE, fragment |-> ""]

\* re.match of the pattern on url
url_match(prefix, url, query_required) ==
    LET p == Len(prefix)
        at == find(url, "@", p + 1)
        colon == IF at = 0 THEN 0 ELSE find(url, ":", at + 1)
        nondigit == {i \in (colon + 1)..Len(url) : ~IsDigit(Ch(url, i))}
        last == IF nondigit = {} THEN Len(url) ELSE Min(nondigit) - 1
        rest == rest_match(SubSeq(url, last + 1, Len(url)), query_required)
    IN  IF /\ startswith(url, prefix)
           /\ at > p + 1
           /\ colon > at + 1
           /\ last > colon
           /\ rest.ok
        THEN [ok |-> TRUE, user |-> SubSeq(url, p + 1, at - 1), server |-> SubSeq(url, at + 1, colon - 1),
              port |-> SubSeq(url, colon + 1, last), has_query |-> rest.has_query, query |-> rest.query,
              has_fragment |-> rest.has_fragment, fragment |-> rest.fragment]
        ELSE NoMatch

\* alpn.split(",") if alpn else []
alpn_list(alpn) == IF alpn # "" THEN split(alpn, ",") ELSE <<>>


(***************************************************************************)
(* The outbound each handler builds from its link: ok = FALSE when the     *)
(* handler's try block raises before it reaches template["outbounds"].     *)
(***************************************************************************)
Raised == [ok |-> FALSE, outbound |-> [tag |-> ""]]

\* the outbound dict of add_vmess_to_template (lines 107-127), once both
\* int() calls have returned
vmess_dict(vmess_config, port, aid) ==
    [type |-> "vmess",
     tag |-> "VMess - " \o py_str(jget(vmess_config, "ps", Str("vmess-outbound"))),
     server |-> jget(vmess_config, "add", None),
     server_port |-> port.value,
     uuid |-> jget(vmess_config, "id", None),
     security |-> jget(vmess_config, "scy", Str("auto")),
     alter_id |-> aid.value,
     tls |-> [enabled |-> eq_str(jget(vmess_config, "tls", None), "tls"),
              server_name |-> IF truthy(jget(vmess_config, "sni", None))
                              THEN jget(vmess_config, "sni", None)
                              ELSE jget(vmess_config, "host", Str("")),
              insecure |-> jget(vmess_config, "verify_cert", None) = Bool(FALSE)],
     transport |-> get_vmess_transport_config(vmess_config)]

\* int(vmess_config.get("port")) and int(vmess_config.get("aid", 0)) raise
\* on a value that is no integer
vmess_checked(vmess_config, port, aid) ==
    IF ~port.ok \/ ~aid.ok THEN Raised
    ELSE [ok |-> TRUE, outbound |-> vmess_dict(vmess_config, port, aid)]

\* vmess_config = json.loads(decoded_content) and what follows it
vmess_from_loaded(loaded_config) ==
    IF ~loaded_config.ok THEN Raised
    ELSE vmess_checked(loaded_config.value,
                       py_int(jget(loaded_config.value, "port", None)),
                       py_int(jget(loaded_config.value, "aid", Num(0))))

\* decoded_content = base64.b64decode(base64_content).decode('utf-8') and
\* what follows it
vmess_from_decoded(decoded_content) ==
    IF ~decoded_content.ok THEN Raised ELSE vmess_from_loaded(json_loads(decoded_content.text))

\* add_vmess_to_template up to the append.  The json deployment also
\* removes "v2ray://" from the payload.
vmess_payload(v, vmess_url) ==
    IF v = "json" THEN replace(replace(vmess_url, "vmess://", ""), "v2ray://", "")
    ELSE replace(vmess_url, "vmess://", "")

\* lines 103-127 on the payload
vmess_from_payload(base64_content) == vmess_from_decoded(b64decode_utf8(base64_content))

vmess_outbound(v, vmess_url) == vmess_from_payload(vmess_payload(v, vmess_url))

\* a handler that prefers the name parameter to the fragment
vless_dict_name_first(url_match_, params) ==
    [type |-> "vless",
     tag |-> "VLess - " \o (IF has(params, "name") THEN get(params, "name", "")
                            ELSE IF url_match_.has_fragment THEN unquote(url_match_.fragment)
                            ELSE "vless-" \o url_match_.server \o "-" \o url_match_.port),
     server |-> url_match_.server,
     server_port |-> int_of_digits(url_match_.port),
     uuid |-> url_match_.user,
     flow |-> get(params, "flow", ""),
     tls |-> [enabled |-> get(params, "security", "none") \in {"tls", "xtls"},
              server_name |-> get(params, "sni", ""),
              utls |-> [enabled |-> get(params, "fp", "") # "", fingerprint |-> get(params, "fp", "")],
              alpn |-> alpn_list(get(params, "alpn", ""))],
     transport |-> get_vless_transport_config(get(params, "type", "tcp"), get(params, "host", ""),
                                              get(params, "path", ""))]

\* the outbound dict of add_vless_to_template, from the groups of the match
\* and the query parameters
vless_dict(url_match_, params) ==
    [type |-> "vless",
     tag |-> "VLess - " \o (IF url_match_.has_fragment THEN unquote(url_match_.fragment)
                            ELSE get(params, "name", "vless-" \o url_match_.server \o "-" \o url_match_.port)),
     server |-> url_match_.server,
     server_port |-> int_of_digits(url_match_.port),
     uuid |-> url_match_.user,
     flow |-> get(params, "flow", ""),
     tls |-> [enabled |-> get(params, "security", "none") \in {"tls", "xtls"},
              server_name |-> get(params, "sni", ""),
              utls |-> [enabled |-> get(params, "fp", "") # "", fingerprint |-> get(params, "fp", "")],
              alpn |-> alpn_list(get(params, "alpn", ""))],
     transport |-> get_vless_transport_config(get(params, "type", "tcp"), get(params, "host", ""),
                                              get(params, "path", ""))]

\* if not url_match: raise ValueError; params = dict(parse_qsl(params_str))
vless_from_match(url_match_) ==
    IF ~url_match_.ok THEN Raised
    ELSE [ok |-> TRUE, outbound |-> vless_dict(url_match_, parse_qsl(url_match_.query))]

\* add_vless_to_template up to the append
vless_outbound(vless_url) == vless_from_match(url_match("vless://", vless_url, TRUE))

\* the outbound dict of add_trojan_to_template before the transport
trojan_dict(url_match_, params) ==
    [type |-> "trojan",
     tag |-> "Trojan - " \o (IF url_match_.has_fragment THEN unquote(url_match_.fragment)
                             ELSE get(params, "name", "trojan-" \o url_match_.server \o "-" \o url_match_.port)),
     server |-> url_match_.server,
     server_port |-> int_of_digits(url_match_.port),
     password |-> url_match_.user,
     tls |-> [enabled |-> TRUE, server_name |-> get(params, "sni", ""),
              alpn |-> alpn_list(get(params, "alpn", ""))]]

\* a handler that attaches the transport whatever the type
trojan_transport_always(outbound, params) ==
    ("transport" :> get_trojan_transport_config(get(params, "type", "tcp"), get(params, "host", ""),
                                                  get(params, "path", ""))) @@ outbound

\* if type_param != "tcp": outbound["transport"] = get_trojan_transport_config(...)
trojan_with_transport(outbound, params) ==
    IF get(params, "type", "tcp") # "tcp"
    THEN ("transport" :> get_trojan_transport_config(get(params, "type", "tcp"), get(params, "host", ""),
                                                      get(params, "path", ""))) @@ outbound
    ELSE outbound

trojan_from_params(url_match_, params) ==
    [ok |-> TRUE, outbound |-> trojan_with_transport(trojan_dict(url_match_, params), params)]

\* if not url_match: raise ValueError; params = dict(parse_qsl(params_str or ""))
trojan_from_match(url_match_) ==
    IF ~url_match_.ok THEN Raised
    ELSE trojan_from_params(url_match_, parse_qsl(IF url_match_.has_query THEN url_match_.query ELSE ""))

\* add_trojan_to_template up to the append
trojan_outbound(trojan_url) == trojan_from_match(url_match("trojan://", trojan_url, FALSE))

RECURSIVE v2ray_opts_dict(_, _)
\* the opts_dict loop of create_ss_v2ray_outbound over plugin_opts.split(';'):
\* key=value gives the value, a bare key gives True, an empty piece nothing
v2ray_opts_dict(pieces, i) ==
    IF i > Len(pieces) THEN <<>>
    ELSE IF pieces[i] = "" THEN v2ray_opts_dict(pieces, i + 1)
    ELSE IF contains(pieces[i], "=")
    THEN <<[name |-> split1(pieces[i], "=")[1], value |-> Str(split1(pieces[i], "=")[2])]>>
            \o v2ray_opts_dict(pieces, i + 1)
    ELSE <<[name |-> pieces[i], value |-> Bool(TRUE)]>> \o v2ray_opts_dict(pieces, i + 1)

\* a builder whose websocket branch emits the transport it detects
create_ss_v2ray_outbound_ws_transport(server, port, method, password, plugin_opts, tag) ==
    LET opts_dict == v2ray_opts_dict(split(plugin_opts, ";"), 1)
        tls_enabled == has(opts_dict, "tls")
        ws_mode == eq_str(get(opts_dict, "mode", None), "websocket")
        ws_path == get(opts_dict, "path", Str("/"))
        ws_host == get(opts_dict, "host", Str(""))
    IN  IF ws_mode
        THEN [type |-> "shadowsocks", tag |-> tag, server |-> server, server_port |-> int_of_digits(port),
              method |-> method, password |-> password, plugin |-> "v2ray-plugin",
              plugin_opts |-> plugin_opts,
              transport |-> [type |-> "ws", path |-> ws_path, headers |-> [Host |-> ws_host]]]
        ELSE [type |-> "shadowsocks", tag |-> tag, server |-> server, server_port |-> int_of_digits(port),
              method |-> method, password |-> password, plugin |-> "v2ray-plugin",
              plugin_opts |-> plugin_opts]

create_ss_v2ray_outbound(server, port, method, password, plugin_opts, tag) ==
    LET opts_dict == v2ray_opts_dict(split(plugin_opts, ";"), 1)
        tls_enabled == has(opts_dict, "tls")
        ws_mode == eq_str(get(opts_dict, "mode", None), "websocket")
        ws_path == get(opts_dict, "path", Str("/"))
        ws_host == get(opts_dict, "host", Str(""))
    IN  IF ws_mode
        THEN [type |-> "shadowsocks", tag |-> tag, server |-> server, server_port |-> int_of_digits(port),
              method |-> method, password |-> password, plugin |-> "v2ray-plugin",
              plugin_opts |-> plugin_opts]
        ELSE [type |-> "shadowsocks", tag |-> tag, server |-> server, server_port |-> int_of_digits(port),
              method |-> method, password |-> password, plugin |-> "v2ray-plugin",
              plugin_opts |-> plugin_opts]

\* a handler that attaches the plugin keys whenever the parameter has text
ss_plain_any_text(server, port, method, password, plugin, plugin_opts, tag) ==
    IF plugin # "" \/ plugin_opts # ""
    THEN ("plugin" :> plugin) @@ ("plugin_opts" :> plugin_opts)
            @@ [type |-> "shadowsocks", tag |-> tag, server |-> server,
                server_port |-> int_of_digits(port), method |-> method, password |-> password]
    ELSE [type |-> "shadowsocks", tag |-> tag, server |-> server,
          server_port |-> int_of_digits(port), method |-> method, password |-> password]

\* the `else` branch of lines 286-297: the plain outbound, with the plugin
\* keys when a plugin is named
ss_plain(server, port, method, password, plugin, plugin_opts, tag) ==
    IF plugin # ""
    THEN ("plugin" :> plugin) @@ ("plugin_opts" :> plugin_opts)
            @@ [type |-> "shadowsocks", tag |-> tag, server |-> server,
                server_port |-> int_of_digits(port), method |-> method, password |-> password]
    ELSE [type |-> "shadowsocks", tag |-> tag, server |-> server,
          server_port |-> int_of_digits(port), method |-> method, password |-> password]

\* lines 284-297: the outbound by plugin
ss_by_plugin(server, port, method, password, plugin, plugin_opts, tag) ==
    IF plugin = "v2ray-plugin"
    THEN create_ss_v2ray_outbound(server, port, method, password, plugin_opts, tag)
    ELSE ss_plain(server, port, method, password, plugin, plugin_opts, tag)

\* lines 274-281: plugin and plugin_opts of the unquoted plugin parameter
ss_with_plugin(server, port, method, password, plugin_raw, tag) ==
    ss_by_plugin(server, port, method, password,
                 IF plugin_raw # "" THEN split1(plugin_raw, ";")[1] ELSE "",
                 IF plugin_raw # "" /\ contains(plugin_raw, ";") THEN split1(plugin_raw, ";")[2] ELSE "",
                 tag)

\* a handler that never overrides the method
ss_from_params_no_override(match, method_password, params) ==
    ss_with_plugin(match.server, match.port,
                   method_password[1],
                   method_password[2],
                   unquote(get(params, "plugin", "")),
                   "Shadowsocks - "
                     \o strip(replace(IF match.has_fragment THEN unquote(match.fragment)
                                      ELSE "ss-" \o match.server \o "-" \o match.port,
                                      NonAscii, "")))

\* lines 263-274: the method, the cleaned tag and the plugin parameter
ss_from_params(match, method_password, params) ==
    ss_with_plugin(match.server, match.port,
                   get(params, "encryption", method_password[1]),
                   method_password[2],
                   unquote(get(params, "plugin", "")),
                   "Shadowsocks - "
                     \o strip(replace(IF match.has_fragment THEN unquote(match.fragment)
                                      ELSE "ss-" \o match.server \o "-" \o match.port,
                                      NonAscii, "")))

\* method, password = decoded.split(':', 1) raises unless it gives two pieces
ss_from_split(match, method_password) ==
    IF Len(method_password) # 2 THEN Raised
    ELSE [ok |-> TRUE,
          outbound |-> ss_from_params(match, method_password,
                                      parse_qsl(IF match.has_query THEN match.query ELSE ""))]

\* decoded = base64.b64decode(base64_part).decode('utf-8')
ss_from_decoded(match, decoded) ==
    IF ~decoded.ok THEN Raised ELSE ss_from_split(match, split1(decoded.text, ":"))

\* if not match: raise ValueError; base64_part = unquote(base64_part)
ss_from_match(match) ==
    IF ~match.ok THEN Raised ELSE ss_from_decoded(match, b64decode_utf8(unquote(match.user)))

\* add_shadowsocks_to_template up to the append
ss_outbound(ss_url) == ss_from_match(url_match("ss://", ss_url, FALSE))

(***************************************************************************)
(* Input lines.                                                            *)
(***************************************************************************)
Variants == {"form", "json"}

MaxLines == 2

MaxConcLines == 1

TrojanLink == "trojan://pw@host:443#Node1"

\* another server under the same tag
TrojanLinkSameTag == "trojan://pw2@other:8443?type=ws&host=h#Node1"

VmessPayload == "eyJwcyI6IlgiLCJhZGQiOiIxLjIuMy40IiwicG9ydCI6NDQzLCJpZCI6InUifQ=="

VmessLink == "vmess://" \o VmessPayload

VlessLink == "vless://uuid@host:443?security=tls&sni=example.com&type=ws&path=%2Fp&host=h#MyNode"

SsLink == "ss://YWVzLTI1Ni1nY206c2VjcmV0@host:8388#Node%20SS"

\* vless without query: the pattern does not match
VlessNoQuery == "vless://uuid@host:443#NoQuery"

\* {"ps":"Y","add":"h","id":"u"}: no port
VmessNoPort == "vmess://eyJwcyI6IlkiLCJhZGQiOiJoIiwiaWQiOiJ1In0="

V2rayLink == "v2ray://" \o VmessPayload

OtherLine == "http://example.com/list"

WellFormedLinks == {TrojanLink, TrojanLinkSameTag, VmessLink, VlessLink, SsLink}

MalformedLinks == {VlessNoQuery, VmessNoPort}

RawLines ==
    WellFormedLinks \cup MalformedLinks \cup {V2rayLink, OtherLine, "", "  ", " \t" \o TrojanLink \o " "}

RECURSIVE join(_)
\* "\n".join(lines)
join(lines) ==
    IF Len(lines) = 0 THEN ""
    ELSE IF Len(lines) = 1 THEN lines[1]
    ELSE lines[1] \o "\n" \o join(Tail(lines))

SeqsUpTo(S, n) == UNION {[1..k -> S] : k \in 0..n}

\* the texts of at most MaxLines lines
Inputs == {join(lines) : lines \in SeqsUpTo(RawLines, MaxLines)}

\* the texts two interleaved requests submit
ConcInputs == {join(lines) : lines \in SeqsUpTo({TrojanLink, TrojanLinkSameTag, VmessLink, VlessNoQuery, OtherLine, ""}, MaxConcLines)}

(***************************************************************************)
(* Links by their parts.  A part that a link may lack is a sequence: <<>>  *)
(* when the link lacks it, <<text>> when it has it.                        *)
(***************************************************************************)
RECURSIVE join_with(_, _)
\* sep.join(pieces)
join_with(pieces, sep) ==
    IF Len(pieces) = 0 THEN ""
    ELSE IF Len(pieces) = 1 THEN pieces[1]
    ELSE pieces[1] \o sep \o join_with(Tail(pieces), sep)

\* name=value when the link has the parameter
param(name, part) == IF part = <<>> THEN <<>> ELSE <<name \o "=" \o part[1]>>

\* <prefix><user>@<server>:<port>[?<piece>&...][#<fragment>]
url_link(prefix, user, server, port, pieces, fragment) ==
    prefix \o user \o "@" \o server \o ":" \o port
        \o (IF pieces = <<>> THEN "" ELSE "?" \o join_with(pieces, "&"))
        \o (IF fragment = <<>> THEN "" ELSE "#" \o fragment[1])

\* the trojan links of the model: every choice of type, host, path, name and
\* fragment
TrojanCases ==
    [type : {<<>>, <<"">>, <<"tcp">>, <<"ws">>, <<"grpc">>, <<"http">>, <<"quic">>},
     host : {<<>>, <<"h">>},
     path : {<<>>, <<"%2Fp">>},
     name : {<<>>, <<"N">>},
     fragment : {<<>>, <<"Node1">>, <<"My%20Node">>}]

trojan_link(c) ==
    url_link("trojan://", "pw", "host", "443",
             param("name", c.name) \o param("type", c.type) \o param("host", c.host) \o param("path", c.path),
             c.fragment)

TrojanLinkOf == [c \in TrojanCases |-> trojan_link(c)] @@ <<>>

\* the parts of each trojan link of the model
TrojanCaseOf ==
    [link \in {TrojanLinkOf[c] : c \in TrojanCases} |-> CHOOSE c \in TrojanCases : TrojanLinkOf[c] = link] @@ <<>>

\* ord(c) of an ASCII character
ord(c) == IF contains(AsciiLow, c) THEN find(AsciiLow, c, 1) + 31 ELSE find(AsciiHigh, c, 1) + 96

\* the four characters of base64 for the len bytes (1 to 3) packed in n
b64quad(n, len) ==
    Ch(B64Alphabet, (n \div 262144) + 1) \o Ch(B64Alphabet, ((n \div 4096) % 64) + 1)
        \o (IF len >= 2 THEN Ch(B64Alphabet, ((n \div 64) % 64) + 1) ELSE "=")
        \o (IF len = 3 THEN Ch(B64Alphabet, (n % 64) + 1) ELSE "=")

RECURSIVE b64encode(_)
\* base64.b64encode of an ASCII text: what the sender of a vmess or ss link
\* does
b64encode(text) ==
    IF Len(text) = 0 THEN ""
    ELSE IF Len(text) = 1 THEN b64quad(ord(Ch(text, 1)) * 65536, 1)
    ELSE IF Len(text) = 2 THEN b64quad(ord(Ch(text, 1)) * 65536 + ord(Ch(text, 2)) * 256, 2)
    ELSE b64quad(ord(Ch(text, 1)) * 65536 + ord(Ch(text, 2)) * 256 + ord(Ch(text, 3)), 3)
            \o b64encode(SubSeq(text, 4, Len(text)))

\* the JSON text of a value
json_text(value) ==
    IF "s" \in DOMAIN value THEN "\"" \o value.s \o "\""
    ELSE IF "n" \in DOMAIN value THEN ToString(value.n)
    ELSE IF "b" \in DOMAIN value THEN (IF value.b THEN "true" ELSE "false")
    ELSE "null"

\* "name":value when the object has the member
member(name, part) == IF part = <<>> THEN <<>> ELSE <<"\"" \o name \o "\":" \o json_text(part[1])>>

\* the vmess objects of the model that differ in ps, add, port, id and aid
VmessFieldCases ==
    [ps : {<<>>, <<Str("X")>>, <<Str("")>>},
     add : {<<>>, <<Str("1.2.3.4")>>},
     port : {<<>>, <<Num(443)>>, <<Str("8443")>>, <<Str("abc")>>},
     id : {<<>>, <<Str("u")>>},
     aid : {<<>>, <<Num(2)>>, <<Str("x")>>},
     net : {<<>>}, type : {<<>>}, host : {<<>>}, path : {<<>>}]

\* the vmess objects of the model that differ in net, type, host and path
VmessTransportCases ==
    [ps : {<<Str("X")>>}, add : {<<Str("1.2.3.4")>>}, port : {<<Num(443)>>}, id : {<<Str("u")>>}, aid : {<<>>},
     net : {<<>>, <<Str("ws")>>, <<Str("grpc")>>, <<Str("http")>>, <<Str("tcp")>>, <<Str("kcp")>>},
     type : {<<>>, <<Str("http")>>, <<Str("none")>>},
     host : {<<>>, <<Str("")>>, <<Str("h")>>},
     path : {<<>>, <<Str("/p")>>}]

VmessCases == VmessFieldCases \cup VmessTransportCases

vmess_json(c) ==
    "{" \o join_with(member("ps", c.ps) \o member("add", c.add) \o member("port", c.port)
                        \o member("id", c.id) \o member("aid", c.aid) \o member("net", c.net)
                        \o member("type", c.type) \o member("host", c.host) \o member("path", c.path), ",")
        \o "}"

vmess_link(c) == "vmess://" \o b64encode(vmess_json(c))

VmessLinkOf == [c \in VmessCases |-> vmess_link(c)] @@ <<>>

\* the object of each vmess link of the model
VmessCaseOf ==
    [link \in {VmessLinkOf[c] : c \in VmessCases} |-> CHOOSE c \in VmessCases : VmessLinkOf[c] = link] @@ <<>>

\* vmess links whose payload does not decode: an open base64 quad, bytes
\* that are no UTF-8, a cut JSON text, no text at all, and JSON that is no
\* object ([1] and null)
VmessUndecodable ==
    {"vmess://eyJwc", "vmess://gICA", "vmess://eyJwcyI6", "vmess://!!!", "vmess://WzFd", "vmess://bnVsbA=="}

\* the vless links of the model that differ in name and fragment
VlessTagCases ==
    [type : {<<>>, <<"ws">>}, host : {<<>>}, path : {<<>>},
     name : {<<>>, <<"N">>},
     fragment : {<<>>, <<"Node1">>, <<"My%20Node">>}]

\* the vless links of the model that differ in type, host and path
VlessTransportCases ==
    [type : {<<>>, <<"">>, <<"tcp">>, <<"ws">>, <<"grpc">>, <<"http">>, <<"quic">>},
     host : {<<>>, <<"">>, <<"h">>},
     path : {<<>>, <<"">>, <<"%2Fp">>},
     name : {<<>>},
     fragment : {<<"Node1">>}]

VlessCases == VlessTagCases \cup VlessTransportCases

\* every vless link of the cases has a query: security=tls at least
vless_link(c) ==
    url_link("vless://", "uuid", "host", "443",
             <<"security=tls">> \o param("name", c.name) \o param("type", c.type) \o param("host", c.host)
                \o param("path", c.path),
             c.fragment)

VlessLinkOf == [c \in VlessCases |-> vless_link(c)] @@ <<>>

\* the parts of each vless link of the model
VlessCaseOf ==
    [link \in {VlessLinkOf[c] : c \in VlessCases} |-> CHOOSE c \in VlessCases : VlessLinkOf[c] = link] @@ <<>>

\* vless links without a query part: no "?", or a "?" with nothing before
\* the fragment or the end
VlessQueryless ==
    {"vless://uuid@host:443", "vless://uuid@host:443#Node1", "vless://uuid@host:443?",
     "vless://uuid@host:443?#Node1"}

\* method and password of the ss links of the model: one password holds a
\* ":", one userinfo needs base64 padding
SsCredentials ==
    {[method |-> "aes-256-gcm", password |-> "secret"],
     [method |-> "m", password |-> "p:w"],
     [method |-> "m", password |-> "pw"]}

\* the userinfo of a link for method:password, with its "=" written as %3D
\* when quoted
ss_user(cred, quoted) ==
    [raw |-> IF quoted THEN replace(b64encode(cred.method \o ":" \o cred.password), "=", "%3D")
             ELSE b64encode(cred.method \o ":" \o cred.password),
     cred |-> <<cred>>]

\* userinfo that does not decode: an open base64 quad, bytes that are no
\* UTF-8, no base64 data at all, and a text without ":" ("nocolon")
SsUndecodable ==
    {[raw |-> "YQ", cred |-> <<>>], [raw |-> "gICA", cred |-> <<>>], [raw |-> "!!!", cred |-> <<>>],
     [raw |-> "bm9jb2xvbg==", cred |-> <<>>]}

SsUsers == {ss_user(cred, quoted) : cred \in SsCredentials, quoted \in BOOLEAN} \cup SsUndecodable

\* the plugin parameters of the model: the value as the link writes it, and
\* the name and the options it stands for
SsPlugins ==
    {[raw |-> "obfs-local%3Bobfs%3Dhttp%3Bobfs-host%3Dx", name |-> "obfs-local", opts |-> "obfs=http;obfs-host=x"],
     [raw |-> "simple", name |-> "simple", opts |-> ""],
     [raw |-> "simple%3B", name |-> "simple", opts |-> ""],
     [raw |-> "obfs-local;obfs=http", name |-> "obfs-local", opts |-> "obfs=http"],
     [raw |-> "%3Bopts", name |-> "", opts |-> "opts"],
     [raw |-> "", name |-> "", opts |-> ""]}

\* the v2ray-plugin parameters of the model
SsV2rayPlugins ==
    {[raw |-> "v2ray-plugin", name |-> "v2ray-plugin", opts |-> ""],
     [raw |-> "v2ray-plugin%3Btls", name |-> "v2ray-plugin", opts |-> "tls"],
     [raw |-> "v2ray-plugin%3Bmode%3Dquic", name |-> "v2ray-plugin", opts |-> "mode=quic"],
     [raw |-> "v2ray-plugin%3Bmode%3Dwebsocket", name |-> "v2ray-plugin", opts |-> "mode=websocket"],
     [raw |-> "v2ray-plugin%3B%3Bmode%3Dwebsocket%3Bpath", name |-> "v2ray-plugin",
      opts |-> ";mode=websocket;path"],
     [raw |-> "v2ray-plugin%3Bmode%3Dwebsocket%3Btls%3Bhost%3Dx%3Bpath%3D%2Fws", name |-> "v2ray-plugin",
      opts |-> "mode=websocket;tls;host=x;path=/ws"]}

\* the ss links of the model that differ in userinfo and encryption
SsDecodeCases ==
    [user : SsUsers, encryption : {<<>>, <<"chacha20">>}, plugin : {<<>>}, fragment : {<<"Node%20SS">>}]

\* the ss links of the model that differ in plugin
SsPluginCases ==
    [user : {ss_user([method |-> "aes-256-gcm", password |-> "secret"], FALSE)},
     encryption : {<<>>},
     plugin : {<<>>} \cup {<<plugin>> : plugin \in SsPlugins \cup SsV2rayPlugins},
     fragment : {<<>>, <<"Node%20SS">>}]

SsCases == SsDecodeCases \cup SsPluginCases

ss_link(c) ==
    url_link("ss://", c.user.raw, "host", "8388",
             param("encryption", c.encryption)
                \o param("plugin", IF c.plugin = <<>> THEN <<>> ELSE <<c.plugin[1].raw>>),
             c.fragment)

SsLinkOf == [c \in SsCases |-> ss_link(c)] @@ <<>>

\* the parts of each ss link of the model
SsCaseOf ==
    [link \in {SsLinkOf[c] : c \in SsCases} |-> CHOOSE c \in SsCases : SsLinkOf[c] = link] @@ <<>>

\* the single links a client submits
Links ==
    DOMAIN TrojanCaseOf \cup DOMAIN VmessCaseOf \cup VmessUndecodable \cup DOMAIN VlessCaseOf \cup VlessQueryless
        \cup DOMAIN SsCaseOf

\* the texts of one link, and the empty text
LinkInputs == Links \cup {""}

\* config_lines = [line.strip() for line in input_text.split('\n') if line.strip()]
RECURSIVE stripped_lines(_, _)
stripped_lines(lines, i) ==
    IF i > Len(lines) THEN <<>>
    ELSE IF strip(lines[i]) # "" THEN <<strip(lines[i])>> \o stripped_lines(lines, i + 1)
    ELSE stripped_lines(lines, i + 1)

split_config_lines(text) == stripped_lines(split(text, "\n"), 1)

(***************************************************************************)
(* TLC evaluates a definition without parameters once, before it explores  *)
(* the states.  The tables hold, for every text and every config line of   *)
(* the model, what the operators above compute character by character; a   *)
(* step reads the value there instead of computing it again in every       *)
(* state.  (f @@ <<>> is f, held as an explicit function.)                 *)
(***************************************************************************)
Texts == Inputs \cup ConcInputs \cup LinkInputs

ConfigLinesTable == [text \in Texts |-> split_config_lines(text)] @@ <<>>

\* config_lines of a text of the model
config_lines_of(text) == ConfigLinesTable[text]

Configs == UNION {{ConfigLinesTable[text][i] : i \in 1..Len(ConfigLinesTable[text])} : text \in Texts}

\* what a handler is called with: a config line, or one with "v2ray://"
\* replaced (line 498)
Urls == Configs \cup {replace(config, "v2ray://", "vmess://") : config \in Configs}

\* the payloads the two deployments cut out of the urls
VmessPayloads == {vmess_payload(v, vmess_url) : v \in Variants, vmess_url \in Urls}

VmessPayloadTable == [base64_content \in VmessPayloads |-> vmess_from_payload(base64_content)] @@ <<>>

VmessTable == [v \in Variants, vmess_url \in Urls |-> VmessPayloadTable[vmess_payload(v, vmess_url)]] @@ <<>>

VlessTable == [vless_url \in Urls |-> vless_outbound(vless_url)] @@ <<>>

TrojanTable == [trojan_url \in Urls |-> trojan_outbound(trojan_url)] @@ <<>>

ShadowsocksTable == [ss_url \in Urls |-> ss_outbound(ss_url)] @@ <<>>

(***************************************************************************)
(* The template document.  An entry of its "outbounds" array is a dict     *)
(* with the keys it has; the value of an entry's own "outbounds" key is    *)
(* [list |-> <<tags>>] when it is a list and None when it is null.         *)
(***************************************************************************)
List(refs) == [list |-> refs]

IsList(v) == "list" \in DOMAIN v

\* an append without the membership test
append_always(refs, tag) == Append(refs, tag)

\* a registration that puts a new tag first
prepend_if_absent(refs, tag) ==
    IF \A i \in 1..Len(refs) : refs[i] # tag THEN <<tag>> \o refs ELSE refs

\* lines 93-94 and 524-525: if tag not in ob["outbounds"]: append(tag)
append_if_absent(refs, tag) ==
    IF \A i \in 1..Len(refs) : refs[i] # tag THEN Append(refs, tag) ELSE refs

RECURSIVE selectors_loop_form(_, _, _)
\* add_outbound_to_selectors of the form deployment, from entry i on: the
\* groups are the entries tagged Latency or Manual that have an "outbounds"
\* key.  ob["tag"] of an entry without tag is a KeyError, and `tag not in`
\* a null value a TypeError: the loop stops there, with the entries before
\* it already changed.
selectors_loop_form(outbounds, tag, i) ==
    IF i > Len(outbounds) THEN [raised |-> FALSE, outbounds |-> outbounds]
    ELSE LET ob == outbounds[i]
         IN  IF "tag" \notin DOMAIN ob THEN [raised |-> TRUE, outbounds |-> outbounds]
             ELSE IF ob.tag \in {"Latency", "Manual"} /\ "outbounds" \in DOMAIN ob
             THEN IF ~IsList(ob.outbounds) THEN [raised |-> TRUE, outbounds |-> outbounds]
                  ELSE selectors_loop_form(
                           [outbounds EXCEPT ![i].outbounds = List(append_if_absent(@.list, tag))],
                           tag, i + 1)
             ELSE selectors_loop_form(outbounds, tag, i + 1)

RECURSIVE selectors_loop_json(_, _, _)
\* add_outbound_to_selectors of the json deployment: the groups are the
\* entries of type selector or urltest whose "outbounds" value is a list
selectors_loop_json(outbounds, tag, i) ==
    IF i > Len(outbounds) THEN [raised |-> FALSE, outbounds |-> outbounds]
    ELSE LET ob == outbounds[i]
         IN  IF /\ "type" \in DOMAIN ob
                /\ ob.type \in {"selector", "urltest"}
                /\ "outbounds" \in DOMAIN ob
                /\ IsList(ob.outbounds)
             THEN selectors_loop_json(
                      [outbounds EXCEPT ![i].outbounds = List(append_if_absent(@.list, tag))],
                      tag, i + 1)
             ELSE selectors_loop_json(outbounds, tag, i + 1)

\* add_outbound_to_selectors(template, tag): the template as the call leaves
\* it, and whether the call raised
add_outbound_to_selectors(v, template, tag) ==
    LET r == IF v = "json" THEN selectors_loop_json(template.outbounds, tag, 1)
             ELSE selectors_loop_form(template.outbounds, tag, 1)
    IN  [raised |-> r.raised, template |-> [template EXCEPT !.outbounds = r.outbounds]]

\* template["outbounds"].insert(0, outbound)
insert_outbound(template, outbound) == [template EXCEPT !.outbounds = <<outbound>> \o @]

\* template["outbounds"].append(outbound)
append_outbound(template, outbound) == [template EXCEPT !.outbounds = Append(@, outbound)]

\* a handler that registers the tag first and appends the outbound after it
register_and_append(v, template, built) ==
    IF ~built.ok THEN [raised |-> TRUE, template |-> template]
    ELSE IF add_outbound_to_selectors(v, template, built.outbound.tag).raised
    THEN add_outbound_to_selectors(v, template, built.outbound.tag)
    ELSE [raised |-> FALSE,
          template |-> append_outbound(add_outbound_to_selectors(v, template, built.outbound.tag).template,
                                       built.outbound)]

\* the end of every handler's try block: append, then register.  An
\* exception of the registration leaves the handler through `except`, which
\* raises ValueError and restores nothing.
append_and_register(v, template, built) ==
    IF ~built.ok THEN [raised |-> TRUE, template |-> template]
    ELSE add_outbound_to_selectors(v, append_outbound(template, built.outbound), built.outbound.tag)

add_vmess_to_template(v, template, vmess_url) ==
    append_and_register(v, template, VmessTable[v, vmess_url])

add_vless_to_template(v, template, vless_url) ==
    append_and_register(v, template, VlessTable[vless_url])

add_trojan_to_template(v, template, trojan_url) ==
    append_and_register(v, template, TrojanTable[trojan_url])

add_shadowsocks_to_template(v, template, ss_url) ==
    append_and_register(v, template, ShadowsocksTable[ss_url])


(***************************************************************************)
(* convert: the request handler.                                           *)
(***************************************************************************)
\* json.dumps(value): the text of a value.  The text is kept as the value
\* it denotes: json.dumps writes the keys of a dict in insertion order, which
\* the code above fixes, so two texts are equal exactly when their values are.
json_dumps(value) == [json |-> value]

\* json.loads(text) of a text json.dumps wrote
json_loads_dumped(text) == text.json

\* the batch-level check: the form deployment rejects a request without
\* config lines (line 38), the json deployment one without text (line 477)
rejects(v, text) ==
    IF v = "json" THEN text = "" ELSE config_lines_of(text) = <<>>

\* a dispatcher whose last branch takes every remaining line for trojan
dispatch_all(v, config) ==
    IF startswith(config, "vmess://") THEN "vmess"
    ELSE IF startswith(config, "vless://") THEN "vless"
    ELSE IF startswith(config, "ss://") THEN "ss"
    ELSE IF v = "json" /\ startswith(config, "v2ray://") THEN "v2ray"
    ELSE "trojan"

\* the handler the dispatcher routes a config line to, "skip" for none
\* (lines 57-67 and 489-501)
dispatch(v, config) ==
    IF startswith(config, "vmess://") THEN "vmess"
    ELSE IF startswith(config, "vless://") THEN "vless"
    ELSE IF startswith(config, "trojan://") THEN "trojan"
    ELSE IF startswith(config, "ss://") THEN "ss"
    ELSE IF v = "json" /\ startswith(config, "v2ray://") THEN "v2ray"
    ELSE "skip"

\* the call of the handler the line is routed to: the template as the call
\* leaves it and whether it raised
call_routed(v, template, config, handler) ==
    IF handler = "vmess" THEN add_vmess_to_template(v, template, config)
    ELSE IF handler = "vless" THEN add_vless_to_template(v, template, config)
    ELSE IF handler = "trojan" THEN add_trojan_to_template(v, template, config)
    ELSE IF handler = "ss" THEN add_shadowsocks_to_template(v, template, config)
    ELSE IF handler = "v2ray"
    THEN add_vmess_to_template(v, template, replace(config, "v2ray://", "vmess://"))
    ELSE [raised |-> FALSE, template |-> template]

call_handler(v, template, config) ==
    call_routed(v, template, config, dispatch(v, config))

\* an inner handler that catches nothing
line_except_missing(raised) == FALSE

\* the inner `except Exception` (lines 68 and 502): it catches what a handler
\* raises, which is always the ValueError of the handler's own `except`
line_except_catches(raised) == raised

\* what the pass prints: the error of a line that raised (lines 70, 504), and
\* in the json deployment the line no branch took (line 501)
printed_lines(v, config, raised) ==
    IF raised THEN <<[kind |-> "error", config |-> config]>>
    ELSE IF dispatch(v, config) = "skip" /\ v = "json"
    THEN <<[kind |-> "skipping", config |-> config]>>
    ELSE <<>>

\* the pass after the handler's call r
after_call(v, config, r) ==
    [template |-> r.template,
     abort |-> r.raised /\ ~line_except_catches(r.raised),
     printed |-> printed_lines(v, config, r.raised)]

\* one pass of the loop body (lines 55-71 and 488-505): the template after
\* it, the lines it printed, and whether it left the loop through the outer
\* `except`
process_config(v, template, config) ==
    after_call(v, config, call_handler(v, template, config))


(***************************************************************************)
(* The state.                                                              *)
(***************************************************************************)
VARIABLES
    variant,        \* the deployment that runs: "form" or "json"
    objs,           \* the dicts of the process, by object name
    loaded,         \* the value json.load gave SINGBOX_TEMPLATE at start
    input_text,     \* per request: the text it submits
    pc,             \* per request: "idle", "loop" (in the for loop) or "off"
    config_lines,   \* per request: the local config_lines
    pos,            \* per request: the index of the next config line
    template_copy,  \* per request: the object the local template_copy names
    printed,        \* per request: what its current call printed
    responses       \* per request: the responses its calls returned

vars == <<variant, objs, loaded, input_text, pc, config_lines, pos, template_copy, printed, responses>>

MaxCalls == 2

Requests == {1, 2}

\* the name of the module-level dict
SINGBOX_TEMPLATE == "SINGBOX_TEMPLATE"

\* a local name that is not bound
Unbound == "unbound"

(***************************************************************************)
(* Templates: templates/singbox_template.json is not part of src/, so the  *)
(* model runs over several documents of the shape the code reads.          *)
(***************************************************************************)
\* the usual shape: a selector, a urltest and a leaf
TemplateUsual ==
    [log |-> "info",
     outbounds |-> << [type |-> "selector", tag |-> "Manual", outbounds |-> List(<<"Latency", "direct">>)],
                      [type |-> "urltest", tag |-> "Latency", outbounds |-> List(<<>>)],
                      [type |-> "direct", tag |-> "direct"] >>,
     route |-> "auto"]

\* groups the two membership rules disagree on, a group that already lists a
\* tag a link produces, and a null reference list
TemplateMixed ==
    [log |-> "info",
     outbounds |-> << [type |-> "selector", tag |-> "Manual", outbounds |-> List(<<"Trojan - Node1">>)],
                      [type |-> "urltest", tag |-> "Other", outbounds |-> List(<<"direct">>)],
                      [type |-> "shadowsocks", tag |-> "Latency", outbounds |-> List(<<>>)],
                      [type |-> "selector", tag |-> "Extra", outbounds |-> None],
                      [type |-> "direct", tag |-> "direct"] >>,
     route |-> "auto"]

\* an entry without tag between two groups
TemplateTagless ==
    [log |-> "info",
     outbounds |-> << [type |-> "selector", tag |-> "Manual", outbounds |-> List(<<>>)],
                      [type |-> "direct"],
                      [type |-> "urltest", tag |-> "Latency", outbounds |-> List(<<>>)] >>,
     route |-> "auto"]

Templates == {TemplateUsual, TemplateMixed, TemplateTagless}

(***************************************************************************)
(* Actions.  convert runs without a suspension point in the source; the    *)
(* model cuts it at the loop's iterations, which allows every interleaving *)
(* of the line steps of two requests and with it the one the source runs.  *)
(***************************************************************************)
\* the object each request's call makes for its local template_copy
CopyName(r) == "template_copy" \o ToString(r)

\* template_copy = SINGBOX_TEMPLATE: the shared dict under a second name
alias_template(r) == [name |-> SINGBOX_TEMPLATE, value |-> objs[SINGBOX_TEMPLATE]]

\* template_copy = json.loads(json.dumps(SINGBOX_TEMPLATE)) (lines 51, 482):
\* the object the local name is bound to and its value, a new dict
copy_template(r) ==
    [name |-> CopyName(r), value |-> json_loads_dumped(json_dumps(objs[SINGBOX_TEMPLATE]))]

\* the response of the batch-level rejection
rejection(v) ==
    IF v = "json"
    THEN [status |-> 400, result |-> None, error |-> Str("Please enter at least one configuration.")]
    ELSE [status |-> 200, result |-> None, error |-> Str("Please enter at least one configuration.")]

\* the response of the outer `except` (lines 76-77 and 513-516)
conversion_error(v) ==
    IF v = "json"
    THEN [status |-> 500, result |-> None, error |-> Str("Conversion error")]
    ELSE [status |-> 200, result |-> Str(""), error |-> Str("Conversion error")]

\* the response that carries the document (lines 74-87 and 507-508)
result_response(template) == [status |-> 200, result |-> json_dumps(template), error |-> None]

\* the locals of a call are gone when it returns
Return(r, response) ==
    /\ responses' = [responses EXCEPT ![r] = Append(@, response)]
    /\ pc' = [pc EXCEPT ![r] = "idle"]
    /\ config_lines' = [config_lines EXCEPT ![r] = <<>>]
    /\ pos' = [pos EXCEPT ![r] = 0]
    /\ template_copy' = [template_copy EXCEPT ![r] = Unbound]
    /\ printed' = [printed EXCEPT ![r] = <<>>]

\* the dicts that stay reachable when request r returns
Collect(r, o) == [n \in DOMAIN o \ ({template_copy[r]} \ {SINGBOX_TEMPLATE}) |-> o[n]]

\* convert up to its return for a rejected request (lines 31-48, 474-479)
Reject(r) ==
    /\ pc[r] = "idle"
    /\ Len(responses[r]) < MaxCalls
    /\ rejects(variant, input_text[r])
    /\ Return(r, rejection(variant))
    /\ UNCHANGED <<variant, objs, loaded, input_text>>

\* template_copy is bound to the new dict c
BindCopy(r, c) ==
    /\ objs' = [n \in DOMAIN objs \cup {c.name} |-> IF n = c.name THEN c.value ELSE objs[n]]
    /\ template_copy' = [template_copy EXCEPT ![r] = c.name]

\* convert up to the loop (lines 31-51, 474-485)
Begin(r) ==
    /\ pc[r] = "idle"
    /\ Len(responses[r]) < MaxCalls
    /\ ~rejects(variant, input_text[r])
    /\ BindCopy(r, copy_template(r))
    /\ config_lines' = [config_lines EXCEPT ![r] = config_lines_of(input_text[r])]
    /\ pos' = [pos EXCEPT ![r] = 1]
    /\ pc' = [pc EXCEPT ![r] = "loop"]
    /\ printed' = [printed EXCEPT ![r] = <<>>]
    /\ UNCHANGED <<variant, loaded, input_text, responses>>

\* the effect of one pass: the outer `except` ends the call with the
\* conversion error, anything else moves on to the next line
Step(r, step) ==
    IF step.abort
    THEN /\ objs' = Collect(r, [objs EXCEPT ![template_copy[r]] = step.template])
         /\ Return(r, conversion_error(variant))
    ELSE /\ objs' = [objs EXCEPT ![template_copy[r]] = step.template]
         /\ printed' = [printed EXCEPT ![r] = @ \o step.printed]
         /\ pos' = [pos EXCEPT ![r] = @ + 1]
         /\ UNCHANGED <<pc, config_lines, template_copy, responses>>

\* one iteration of the loop (lines 54-71, 487-505)
ProcessConfig(r) ==
    /\ pc[r] = "loop"
    /\ pos[r] <= Len(config_lines[r])
    /\ Step(r, process_config(variant, objs[template_copy[r]], config_lines[r][pos[r]]))
    /\ UNCHANGED <<variant, loaded, input_text>>

\* the end of convert (lines 73-87, 507-508)
Respond(r) ==
    /\ pc[r] = "loop"
    /\ pos[r] > Len(config_lines[r])
    /\ Return(r, result_response(objs[template_copy[r]]))
    /\ objs' = Collect(r, objs)
    /\ UNCHANGED <<variant, loaded, input_text>>

Next == \E r \in Requests : Reject(r) \/ Begin(r) \/ ProcessConfig(r) \/ Respond(r)

InitProcess(template) ==
    /\ variant \in Variants
    /\ objs = [n \in {SINGBOX_TEMPLATE} |-> template]
    /\ loaded = template
    /\ config_lines = [r \in Requests |-> <<>>]
    /\ pos = [r \in Requests |-> 0]
    /\ template_copy = [r \in Requests |-> Unbound]
    /\ printed = [r \in Requests |-> <<>>]
    /\ responses = [r \in Requests |-> <<>>]

\* one client, which submits its text MaxCalls times
Init ==
    /\ \E template \in Templates : InitProcess(template)
    /\ \E text \in Inputs : input_text = [r \in Requests |-> IF r = 1 THEN text ELSE ""]
    /\ pc = [r \in Requests |-> IF r = 1 THEN "idle" ELSE "off"]

Spec == Init /\ [][Next]_vars

\* two clients whose requests interleave
InitConc ==
    /\ \E template \in Templates : InitProcess(template)
    /\ input_text \in [Requests -> ConcInputs]
    /\ pc = [r \in Requests |-> "idle"]

SpecConc == InitConc /\ [][Next]_vars

\* one client, which submits one link MaxCalls times
InitLinks ==
    /\ \E template \in Templates : InitProcess(template)
    /\ \E text \in LinkInputs : input_text = [r \in Requests |-> IF r = 1 THEN text ELSE ""]
    /\ pc = [r \in Requests |-> IF r = 1 THEN "idle" ELSE "off"]

SpecLinks == InitLinks /\ [][Next]_vars

(***************************************************************************)
(* Reading a behaviour: the documents the calls returned.                  *)
(***************************************************************************)
\* the response carries a document
HasDocument(response) == "json" \in DOMAIN response.result

\* the document a response carries
Document(response) == json_loads_dumped(response.result)

\* the entries a document holds after the template's own
Appended(document) == SubSeq(document.outbounds, Len(loaded.outbounds) + 1, Len(document.outbounds))

\* what the handler of a config line builds from it, Raised when the line
\* has no handler
built_of(v, config) ==
    IF dispatch(v, config) = "vmess" THEN VmessTable[v, config]
    ELSE IF dispatch(v, config) = "vless" THEN VlessTable[config]
    ELSE IF dispatch(v, config) = "trojan" THEN TrojanTable[config]
    ELSE IF dispatch(v, config) = "ss" THEN ShadowsocksTable[config]
    ELSE IF dispatch(v, config) = "v2ray" THEN VmessTable[v, replace(config, "v2ray://", "vmess://")]
    ELSE Raised

RECURSIVE outbounds_of(_, _, _)
\* the outbounds of the well-formed lines among lines[i..], in their order
outbounds_of(v, lines, i) ==
    IF i > Len(lines) THEN <<>>
    ELSE IF built_of(v, lines[i]).ok THEN <<built_of(v, lines[i]).outbound>> \o outbounds_of(v, lines, i + 1)
    ELSE outbounds_of(v, lines, i + 1)

(***************************************************************************)
(* C1: a line whose handler raises does not abort the batch.  Every call   *)
(* that passes the batch-level check returns a document, never the         *)
(* conversion error, and the entries the document holds after the          *)
(* template's own are exactly the outbounds of the well-formed lines of    *)
(* the input, in their order: a malformed line leaves no entry.            *)
(***************************************************************************)
C1_LineErrorDoesNotAbort ==
    \A r \in Requests : \A k \in 1..Len(responses[r]) :
        \/ responses[r][k] = rejection(variant)
        \/ /\ HasDocument(responses[r][k])
           /\ Appended(Document(responses[r][k]))
                = outbounds_of(variant, config_lines_of(input_text[r]), 1)

\* a document returned for a malformed line followed by a well-formed one
C1_Witness ==
    /\ config_lines_of(input_text[1]) = <<VlessNoQuery, TrojanLink>>
    /\ Len(responses[1]) > 0
    /\ HasDocument(responses[1][1])
    /\ Len(Appended(Document(responses[1][1]))) = 1

(***************************************************************************)
(* Reading a step: what one pass of the loop did to the request's copy.    *)
(***************************************************************************)
\* request r passes its next line in this step
LinePassed(r) == pc[r] = "loop" /\ pos'[r] = pos[r] + 1

\* the line request r passes
LineOf(r) == config_lines[r][pos[r]]

\* the pass printed the error of a handler that raised
ErrorPrinted(r) ==
    /\ Len(printed'[r]) = Len(printed[r]) + 1
    /\ printed'[r][Len(printed'[r])].kind = "error"

\* the request's copy before and after the step
Before(r) == objs[template_copy[r]]

After(r) == objs'[template_copy[r]]

(***************************************************************************)
(* C2: processing one line is all-or-nothing on the document.  When the    *)
(* handler raised, the document is exactly as it was before the line; when *)
(* it returned, exactly one complete outbound was appended.  The code      *)
(* violates it: a registration that raises leaves the appended outbound    *)
(* and the lists it had already extended.                                  *)
(***************************************************************************)
C2_AllOrNothing ==
    [][\A r \in Requests :
          LinePassed(r) =>
              IF ErrorPrinted(r) THEN After(r) = Before(r)
              ELSE dispatch(variant, LineOf(r)) # "skip" =>
                      /\ Len(After(r).outbounds) = Len(Before(r).outbounds) + 1
                      /\ After(r).outbounds[Len(After(r).outbounds)] = built_of(variant, LineOf(r)).outbound]_vars

\* the membership rule of each deployment
selected(v, ob) ==
    /\ "outbounds" \in DOMAIN ob
    /\ IsList(ob.outbounds)
    /\ IF v = "json" THEN "type" \in DOMAIN ob /\ ob.type \in {"selector", "urltest"}
       ELSE "tag" \in DOMAIN ob /\ ob.tag \in {"Latency", "Manual"}

\* tag is a reference of the entry
refers(ob, tag) == \E i \in 1..Len(ob.outbounds.list) : ob.outbounds.list[i] = tag

(***************************************************************************)
(* C3: for every line that is parsed successfully the outbounds array      *)
(* grows by exactly one, the new tag is a reference of every group the     *)
(* membership rule selects, and no other entry changes.  The code violates *)
(* it where C2 fails: a registration that raises on one entry never        *)
(* reaches the groups after it.                                            *)
(***************************************************************************)
C3_ParsedLineRegistered ==
    [][\A r \in Requests :
          (LinePassed(r) /\ built_of(variant, LineOf(r)).ok) =>
              /\ Len(After(r).outbounds) = Len(Before(r).outbounds) + 1
              /\ \A i \in 1..Len(Before(r).outbounds) :
                    IF selected(variant, Before(r).outbounds[i])
                    THEN refers(After(r).outbounds[i], built_of(variant, LineOf(r)).outbound.tag)
                    ELSE After(r).outbounds[i] = Before(r).outbounds[i]]_vars

\* no tag occurs twice in the list
NoRepeat(refs) == \A i, j \in 1..Len(refs) : refs[i] = refs[j] => i = j

\* no reference list of the document holds a tag twice
NoRepeatedReference(document) ==
    \A i \in 1..Len(document.outbounds) :
        ("outbounds" \in DOMAIN document.outbounds[i] /\ IsList(document.outbounds[i].outbounds))
            => NoRepeat(document.outbounds[i].outbounds.list)

(***************************************************************************)
(* C4: registration never duplicates a tag.  The reference lists of the    *)
(* template hold no tag twice; then no list of a request's copy, at any    *)
(* point of the batch, and no list of a returned document holds a tag      *)
(* twice, whether the tag came from the template, from an identical line   *)
(* or from another line that produces the same tag.                        *)
(***************************************************************************)
C4_NoDuplicateReference ==
    NoRepeatedReference(loaded) =>
        /\ \A n \in DOMAIN objs : NoRepeatedReference(objs[n])
        /\ \A r \in Requests : \A k \in 1..Len(responses[r]) :
              HasDocument(responses[r][k]) => NoRepeatedReference(Document(responses[r][k]))

\* a returned document with two outbounds of one tag, which a list of the
\* template held before the batch
C4_Witness ==
    /\ loaded = TemplateMixed
    /\ Len(responses[1]) > 0
    /\ HasDocument(responses[1][1])
    /\ Len(Appended(Document(responses[1][1]))) = 2
    /\ Appended(Document(responses[1][1]))[1].tag = "Trojan - Node1"
    /\ Appended(Document(responses[1][1]))[2].tag = "Trojan - Node1"
    /\ Document(responses[1][1]).outbounds[1].outbounds = List(<<"Trojan - Node1">>)

(***************************************************************************)
(* C5: SINGBOX_TEMPLATE is never mutated.  In every state, in the middle   *)
(* of a call as after it, the shared dict equals the value loaded at       *)
(* start, and every later conversion of the input returns what the first   *)
(* one returned.                                                           *)
(***************************************************************************)
C5_TemplateNeverMutated ==
    /\ objs[SINGBOX_TEMPLATE] = loaded
    /\ \A r \in Requests : \A k \in 1..Len(responses[r]) : responses[r][k] = responses[r][1]

\* a second conversion returned, after the first one had extended its copy
C5_Witness ==
    /\ Len(responses[1]) = MaxCalls
    /\ HasDocument(responses[1][MaxCalls])
    /\ Len(Appended(Document(responses[1][MaxCalls]))) > 0
    /\ Document(responses[1][1]) # loaded

\* every line of the text is a well-formed vmess, vless, trojan or ss link
WellFormedText(text) ==
    /\ config_lines_of(text) # <<>>
    /\ \A i \in 1..Len(config_lines_of(text)) : config_lines_of(text)[i] \in WellFormedLinks

(***************************************************************************)
(* C6: conversion is deterministic.  For an input of well-formed links,    *)
(* two runs on the same text and the same template return documents, and   *)
(* the same one.                                                           *)
(***************************************************************************)
C6_Deterministic ==
    \A r \in Requests :
        WellFormedText(input_text[r]) =>
            \A j, k \in 1..Len(responses[r]) :
                /\ HasDocument(responses[r][j])
                /\ json_dumps(Document(responses[r][j])) = json_dumps(Document(responses[r][k]))

\* two runs on a text of two well-formed links of different schemes
C6_Witness ==
    /\ config_lines_of(input_text[1]) = <<VmessLink, SsLink>>
    /\ Len(responses[1]) = 2
    /\ Len(Appended(Document(responses[1][2]))) = 2

(***************************************************************************)
(* convert run alone: the whole call as one function of the text and the   *)
(* template it copies.                                                     *)
(***************************************************************************)
RECURSIVE loop_alone(_, _, _, _)
\* the for loop from line i on: the response of the call
loop_alone(v, template, lines, i) ==
    IF i > Len(lines) THEN result_response(template)
    ELSE IF process_config(v, template, lines[i]).abort THEN conversion_error(v)
    ELSE loop_alone(v, process_config(v, template, lines[i]).template, lines, i + 1)

convert_alone(v, template, text) ==
    IF rejects(v, text) THEN rejection(v)
    ELSE loop_alone(v, json_loads_dumped(json_dumps(template)), config_lines_of(text), 1)

(***************************************************************************)
(* C7: interleaved requests are isolated.  Under every interleaving of the *)
(* line steps of two requests, each response of a request is the response  *)
(* its text gets when converted alone from the loaded template, and the    *)
(* shared template is unchanged.                                           *)
(***************************************************************************)
C7_InterleavedRequestsIsolated ==
    /\ objs[SINGBOX_TEMPLATE] = loaded
    /\ \A r \in Requests : \A k \in 1..Len(responses[r]) :
          responses[r][k] = convert_alone(variant, loaded, input_text[r])

\* both requests are inside their loops, each with a line of its own added
\* to its copy
C7_Witness ==
    /\ pc[1] = "loop" /\ pc[2] = "loop"
    /\ pos[1] = 2 /\ pos[2] = 2
    /\ Len(objs[template_copy[1]].outbounds) = Len(loaded.outbounds) + 1
    /\ Len(objs[template_copy[2]].outbounds) = Len(loaded.outbounds) + 1
    /\ objs[template_copy[1]] # objs[template_copy[2]]

\* the text has no line that holds more than whitespace
BlankText(text) == \A i \in 1..Len(split(text, "\n")) : strip(split(text, "\n")[i]) = ""

(***************************************************************************)
(* C8: an input that is empty or holds only blank or whitespace-only lines *)
(* yields the batch-level error and no document.  The json deployment      *)
(* violates it: it tests the text, not the lines, so a text of whitespace  *)
(* passes the test and the copy of the template is returned.               *)
(***************************************************************************)
C8_BlankInputRejected ==
    \A r \in Requests :
        BlankText(input_text[r]) =>
            \A k \in 1..Len(responses[r]) :
                ~HasDocument(responses[r][k]) /\ responses[r][k] = rejection(variant)

\* the schemes a deployment has a branch for
Schemes(v) ==
    IF v = "json" THEN {"vmess://", "vless://", "trojan://", "ss://", "v2ray://"}
    ELSE {"vmess://", "vless://", "trojan://", "ss://"}

\* the line starts with no recognized scheme
Unrecognized(v, config) == \A scheme \in Schemes(v) : ~startswith(config, scheme)

RECURSIVE recognized_lines(_, _, _)
\* lines[i..] without the lines of no recognized scheme
recognized_lines(v, lines, i) ==
    IF i > Len(lines) THEN <<>>
    ELSE IF Unrecognized(v, lines[i]) THEN recognized_lines(v, lines, i + 1)
    ELSE <<lines[i]>> \o recognized_lines(v, lines, i + 1)

(***************************************************************************)
(* C9: a line of no recognized scheme is a silent skip.  No error is       *)
(* printed for it, and the document a call returns is the one the loop     *)
(* produces over the lines of the text without such lines: the line        *)
(* appends nothing, changes no list, and the lines after it are processed  *)
(* as if it were absent.                                                   *)
(***************************************************************************)
C9_UnrecognizedLineSkipped ==
    \A r \in Requests :
        /\ \A k \in 1..Len(printed[r]) :
              printed[r][k].kind = "error" => ~Unrecognized(variant, printed[r][k].config)
        /\ \A k \in 1..Len(responses[r]) :
              HasDocument(responses[r][k]) =>
                  responses[r][k]
                    = loop_alone(variant, loaded,
                                 recognized_lines(variant, config_lines_of(input_text[r]), 1), 1)

\* a document returned for an unrecognized line followed by a link
C9_Witness ==
    /\ config_lines_of(input_text[1]) = <<OtherLine, VlessLink>>
    /\ Len(responses[1]) > 0
    /\ HasDocument(responses[1][1])
    /\ Len(Appended(Document(responses[1][1]))) = 1

\* the fields of the entry other than its reference list
other_fields(ob) == [key \in DOMAIN ob \ {"outbounds"} |-> ob[key]]

\* the entry is the template's entry, with tags at most appended to its
\* reference list
extends_entry(new, old) ==
    /\ DOMAIN new = DOMAIN old
    /\ other_fields(new) = other_fields(old)
    /\ "outbounds" \in DOMAIN old =>
          IF IsList(old.outbounds)
          THEN /\ IsList(new.outbounds)
               /\ Len(new.outbounds.list) >= Len(old.outbounds.list)
               /\ SubSeq(new.outbounds.list, 1, Len(old.outbounds.list)) = old.outbounds.list
          ELSE new.outbounds = old.outbounds

\* the document is the template with extensions only
extends_template(document, template) ==
    /\ DOMAIN document = DOMAIN template
    /\ \A key \in DOMAIN template \ {"outbounds"} : document[key] = template[key]
    /\ Len(document.outbounds) >= Len(template.outbounds)
    /\ \A i \in 1..Len(template.outbounds) : extends_entry(document.outbounds[i], template.outbounds[i])

(***************************************************************************)
(* C10: the output has the shape of the template with only extensions.     *)
(* In every returned document, and in a request's copy at every point of   *)
(* the batch, each top-level key other than outbounds has its template     *)
(* value, the template's entries stand at their positions with their       *)
(* fields, and a reference list has its original references first.         *)
(***************************************************************************)
C10_OutputExtendsTemplate ==
    /\ \A n \in DOMAIN objs : extends_template(objs[n], loaded)
    /\ \A r \in Requests : \A k \in 1..Len(responses[r]) :
          HasDocument(responses[r][k]) => extends_template(Document(responses[r][k]), loaded)

\* a returned document with an appended outbound and a reference appended
\* after the original references of a group
C10_Witness ==
    /\ loaded = TemplateUsual
    /\ Len(responses[1]) > 0
    /\ HasDocument(responses[1][1])
    /\ Len(Appended(Document(responses[1][1]))) = 1
    /\ Document(responses[1][1]).outbounds[1].outbounds = List(<<"Latency", "direct", "VLess - MyNode">>)

(***************************************************************************)
(* Reading a behaviour of SpecLinks: what a call made of its one link.     *)
(***************************************************************************)
\* the k-th call of request r returned a document with one entry added
OneAdded(r, k) ==
    /\ HasDocument(responses[r][k])
    /\ Len(Appended(Document(responses[r][k]))) = 1

\* that entry
Added(r, k) == Appended(Document(responses[r][k]))[1]

\* the k-th call of request r returned a document with no entry added
NoneAdded(r, k) ==
    /\ HasDocument(responses[r][k])
    /\ Appended(Document(responses[r][k])) = <<>>

(***************************************************************************)
(* C11: for every trojan link that matches the grammar, the outbound has   *)
(* tls.enabled true, and it has a transport key exactly when the query     *)
(* gives type a value other than tcp.  (parse_qsl leaves a parameter with  *)
(* a blank value out of the query map: `type=` is a link without type.)    *)
(***************************************************************************)
C11_TrojanTransport ==
    \A r \in Requests : \A k \in 1..Len(responses[r]) :
        input_text[r] \in DOMAIN TrojanCaseOf =>
            /\ OneAdded(r, k)
            /\ Added(r, k).type = "trojan"
            /\ Added(r, k).tls.enabled = TRUE
            /\ ("transport" \in DOMAIN Added(r, k))
                  <=> (TrojanCaseOf[input_text[r]].type \notin {<<>>, <<"">>, <<"tcp">>})

\* a link with type=ws gave an outbound with a ws transport
C11_Witness ==
    /\ input_text[1] \in DOMAIN TrojanCaseOf
    /\ TrojanCaseOf[input_text[1]].type = <<"ws">>
    /\ Len(responses[1]) >= 1
    /\ OneAdded(1, 1)
    /\ "transport" \in DOMAIN Added(1, 1)
    /\ Added(1, 1).transport.type = "ws"

\* request r has passed its link
Passed(r) == pc[r] = "loop" /\ pos[r] = 2

\* the handler of the link raised: the pass printed its error and the
\* request's copy is the template still
FailedInCall(r) ==
    /\ printed[r] = <<[kind |-> "error", config |-> input_text[r]]>>
    /\ objs[template_copy[r]] = loaded

\* the link of request r fails: its handler raises and no call adds an entry
LinkFails(r) ==
    /\ Passed(r) => FailedInCall(r)
    /\ \A k \in 1..Len(responses[r]) : NoneAdded(r, k)

\* an integer, or a string of digits
Numeric(value) ==
    \/ "n" \in DOMAIN value
    \/ /\ "s" \in DOMAIN value
       /\ value.s # ""
       /\ \A i \in 1..Len(value.s) : IsDigit(Ch(value.s, i))

\* a part that is there and is not numeric
NotNumeric(part) == part # <<>> /\ ~Numeric(part[1])

(***************************************************************************)
(* C12: the VMess handler fails and appends nothing when the payload does  *)
(* not decode as base64 or as JSON, when add, port or id is absent, and    *)
(* when port or aid is not numeric.  The code violates it: an object       *)
(* without add or without id gives an outbound whose server or uuid is     *)
(* null.                                                                   *)
(***************************************************************************)
\* what the claim wants to fail: add, port or id is absent, or port or aid is
\* not numeric
vmess_incomplete(c) ==
    \/ c.add = <<>>
    \/ c.port = <<>>
    \/ c.id = <<>>
    \/ NotNumeric(c.port)
    \/ NotNumeric(c.aid)

C12_VmessFailures ==
    \A r \in Requests :
        /\ input_text[r] \in VmessUndecodable => LinkFails(r)
        /\ (input_text[r] \in DOMAIN VmessCaseOf /\ vmess_incomplete(VmessCaseOf[input_text[r]]))
              => LinkFails(r)

\* the integer a numeric value stands for
int_value(value) == IF "n" \in DOMAIN value THEN value.n ELSE int_of_digits(value.s)

\* the name the claim gives the outbound of the object c
vmess_name(c) == IF c.ps \in {<<>>, <<Str("")>>} THEN "vmess-outbound" ELSE c.ps[1].s

\* the fields of the outbound ob that the claim derives from the object c
vmess_fields(c, ob) ==
    /\ ob.type = "vmess"
    /\ ob.tag = "VMess - " \o vmess_name(c)
    /\ c.add # <<>> => ob.server = c.add[1]
    /\ ob.server_port = int_value(c.port[1])
    /\ c.id # <<>> => ob.uuid = c.id[1]

(***************************************************************************)
(* C13: for every vmess link the handler parsed, the tag is "VMess - "     *)
(* followed by ps when ps is present and not empty and "VMess -            *)
(* vmess-outbound" when ps is absent or empty, and server, server_port and *)
(* uuid are add, the integer value of port and id.  The code violates it:  *)
(* an empty ps gives the tag "VMess - ".                                   *)
(***************************************************************************)
C13_VmessFields ==
    \A r \in Requests : \A k \in 1..Len(responses[r]) :
        (input_text[r] \in DOMAIN VmessCaseOf /\ OneAdded(r, k))
            => vmess_fields(VmessCaseOf[input_text[r]], Added(r, k))

\* the transport the claim names for the object c, when an absent net is
\* one of the "other" values
claimed_kind(c) ==
    IF c.net = <<Str("ws")>> THEN "ws"
    ELSE IF c.net = <<Str("grpc")>> THEN "grpc"
    ELSE IF c.net = <<Str("http")>> THEN "http"
    ELSE IF c.net = <<Str("tcp")>> /\ c.type = <<Str("http")>> THEN "http"
    ELSE "tcp"

\* the same, when an absent net is read as tcp
amended_kind(c) ==
    IF c.net = <<>> /\ c.type = <<Str("http")>> THEN "http" ELSE claimed_kind(c)

\* the transport t is the one of that kind for the object c
transport_of_kind(c, t, kind) ==
    /\ t.type = kind
    /\ kind = "ws" => (c.host # <<>> => t.headers.Host = c.host[1])
    /\ kind = "grpc" => (c.path # <<>> => t.service_name = c.path[1])
    /\ kind = "http" =>
          /\ t.host = IF c.host \in {<<>>, <<Str("")>>} THEN <<>> ELSE c.host
          /\ c.path # <<>> => t.path = c.path[1]
    /\ kind = "tcp" => t = [type |-> "tcp"]

(***************************************************************************)
(* C14 as stated: ws, grpc and http by net, http for net tcp with inner    *)
(* type http, and exactly {type: tcp} for every other or absent net.  An   *)
(* object without net and with inner type http refutes it.                 *)
(***************************************************************************)
C14_VmessTransportAsStated ==
    \A r \in Requests : \A k \in 1..Len(responses[r]) :
        (input_text[r] \in DOMAIN VmessCaseOf /\ OneAdded(r, k))
            => transport_of_kind(VmessCaseOf[input_text[r]], Added(r, k).transport,
                                 claimed_kind(VmessCaseOf[input_text[r]]))

(***************************************************************************)
(* C14, amended: an absent net is read as tcp.  net ws gives the ws        *)
(* transport with Host = host, grpc the grpc transport with service name   *)
(* path, http the http transport with the host list and path; net tcp or   *)
(* absent with inner type http gives the http transport; every other net,  *)
(* and tcp or absent with any other or no inner type, gives {type: tcp}.   *)
(***************************************************************************)
C14_VmessTransport ==
    \A r \in Requests : \A k \in 1..Len(responses[r]) :
        (input_text[r] \in DOMAIN VmessCaseOf /\ OneAdded(r, k))
            => transport_of_kind(VmessCaseOf[input_text[r]], Added(r, k).transport,
                                 amended_kind(VmessCaseOf[input_text[r]]))

\* an object without net and with inner type http got the http transport
C14_Witness ==
    /\ input_text[1] \in DOMAIN VmessCaseOf
    /\ VmessCaseOf[input_text[1]].net = <<>>
    /\ VmessCaseOf[input_text[1]].type = <<Str("http")>>
    /\ VmessCaseOf[input_text[1]].host = <<Str("h")>>
    /\ Len(responses[1]) >= 1
    /\ OneAdded(1, 1)
    /\ Added(1, 1).transport.type = "http"
    /\ Added(1, 1).transport.host = <<Str("h")>>

(***************************************************************************)
(* C15: a vless link without a query part (no "?", or a "?" with nothing   *)
(* before the fragment or the end) is a format error: the handler raises   *)
(* and nothing is appended.  The code violates it: in "?#Node1" the        *)
(* pattern takes "#Node1" for the query, and the link is parsed.           *)
(***************************************************************************)
C15_VlessQueryMandatory ==
    \A r \in Requests : input_text[r] \in VlessQueryless => LinkFails(r)

\* the text a part of a link of the model stands for once URL-decoded
url_text(raw) == IF raw = "My%20Node" THEN "My Node" ELSE IF raw = "%2Fp" THEN "/p" ELSE raw

\* the name by precedence: the fragment, else the name parameter, else
\* <scheme>-<host>-<port>
tag_name(c, scheme) ==
    IF c.fragment # <<>> THEN url_text(c.fragment[1])
    ELSE IF c.name # <<>> THEN c.name[1]
    ELSE scheme \o "-host-443"

(***************************************************************************)
(* C16: the tag of a vless or trojan outbound is "VLess - " or "Trojan - " *)
(* followed by the URL-decoded fragment when the link has a fragment, else *)
(* by the query parameter name when it has one, else by                    *)
(* <scheme>-<host>-<port>; a fragment wins over name.                      *)
(***************************************************************************)
C16_TagPrecedence ==
    \A r \in Requests : \A k \in 1..Len(responses[r]) :
        /\ input_text[r] \in DOMAIN VlessCaseOf =>
              /\ OneAdded(r, k)
              /\ Added(r, k).tag = "VLess - " \o tag_name(VlessCaseOf[input_text[r]], "vless")
        /\ input_text[r] \in DOMAIN TrojanCaseOf =>
              /\ OneAdded(r, k)
              /\ Added(r, k).tag = "Trojan - " \o tag_name(TrojanCaseOf[input_text[r]], "trojan")

\* a vless link with a name parameter and a fragment got the fragment's tag
C16_Witness ==
    /\ input_text[1] \in DOMAIN VlessCaseOf
    /\ VlessCaseOf[input_text[1]].name = <<"N">>
    /\ VlessCaseOf[input_text[1]].fragment = <<"My%20Node">>
    /\ Len(responses[1]) >= 1
    /\ OneAdded(1, 1)
    /\ Added(1, 1).tag = "VLess - My Node"

\* the member name: value of a vmess object, when the link has the part
given(name, part) == IF part = <<>> THEN <<>> ELSE (name :> Str(url_text(part[1])))

\* the vmess object with net equal to the type of the vless link c, the same
\* host and path, and no inner type
vmess_config_like(c) == given("net", c.type) @@ given("host", c.host) @@ given("path", c.path)

\* a transport of the vmess builder with its JSON strings as plain strings
plain_transport(t) ==
    IF t.type = "ws" THEN [type |-> "ws", path |-> t.path.s, headers |-> [Host |-> t.headers.Host.s]]
    ELSE IF t.type = "grpc" THEN [type |-> "grpc", service_name |-> t.service_name.s]
    ELSE IF t.type = "http"
    THEN [type |-> "http", host |-> [i \in 1..Len(t.host) |-> t.host[i].s], path |-> t.path.s]
    ELSE t

(***************************************************************************)
(* C17: the transport of a vless outbound is, for every type, host and     *)
(* path (present, empty or absent), the transport the vmess builder        *)
(* returns for the object with net equal to that type, the same host and   *)
(* path and no inner type.  The code violates it: the two builders differ  *)
(* in the path they give a ws transport without path and an http           *)
(* transport with an empty path.                                           *)
(***************************************************************************)
C17_VlessTransportAsVmess ==
    \A r \in Requests : \A k \in 1..Len(responses[r]) :
        input_text[r] \in DOMAIN VlessCaseOf =>
            /\ OneAdded(r, k)
            /\ Added(r, k).transport
                 = plain_transport(get_vmess_transport_config(vmess_config_like(VlessCaseOf[input_text[r]])))

(***************************************************************************)
(* C18: for every ss link that matches the grammar, the userinfo is        *)
(* URL-decoded, base64-decoded and split at its first ":" into method and  *)
(* password; the outbound's method is the encryption parameter when the    *)
(* link has one and the decoded method otherwise, its password is the      *)
(* decoded password.  A userinfo that does not decode or has no ":" is an  *)
(* error and appends nothing, with or without an encryption parameter.     *)
(***************************************************************************)
C18_SsCredentials ==
    \A r \in Requests :
        input_text[r] \in DOMAIN SsCaseOf =>
            IF SsCaseOf[input_text[r]].user.cred = <<>> THEN LinkFails(r)
            ELSE \A k \in 1..Len(responses[r]) :
                    /\ OneAdded(r, k)
                    /\ Added(r, k).type = "shadowsocks"
                    /\ Added(r, k).password = SsCaseOf[input_text[r]].user.cred[1].password
                    /\ Added(r, k).method
                         = IF SsCaseOf[input_text[r]].encryption # <<>>
                           THEN SsCaseOf[input_text[r]].encryption[1]
                           ELSE SsCaseOf[input_text[r]].user.cred[1].method

\* a link whose userinfo is written with %3D, whose password holds a ":" and
\* which overrides the method
C18_Witness ==
    /\ input_text[1] \in DOMAIN SsCaseOf
    /\ contains(SsCaseOf[input_text[1]].user.raw, "%3D")
    /\ SsCaseOf[input_text[1]].encryption = <<"chacha20">>
    /\ Len(responses[1]) >= 1
    /\ OneAdded(1, 1)
    /\ Added(1, 1).method = "chacha20"
    /\ Added(1, 1).password = "p:w"

\* the plugin parameter of an ss link by its parts: absent and blank alike
\* name no plugin
ss_plugin(c) == IF c.plugin = <<>> THEN [raw |-> "", name |-> "", opts |-> ""] ELSE c.plugin[1]

(***************************************************************************)
(* C19: for every ss link whose userinfo decodes, the URL-decoded plugin   *)
(* value is split at its first ";" into name and raw options.  The         *)
(* outbound has the keys plugin and plugin_opts exactly when the name is   *)
(* not empty, and then they hold the name and the options text verbatim;   *)
(* a link without plugin parameter has neither key.                        *)
(***************************************************************************)
C19_SsPlugin ==
    \A r \in Requests : \A k \in 1..Len(responses[r]) :
        (input_text[r] \in DOMAIN SsCaseOf /\ SsCaseOf[input_text[r]].user.cred # <<>>) =>
            /\ OneAdded(r, k)
            /\ IF ss_plugin(SsCaseOf[input_text[r]]).name = ""
               THEN "plugin" \notin DOMAIN Added(r, k) /\ "plugin_opts" \notin DOMAIN Added(r, k)
               ELSE /\ {"plugin", "plugin_opts"} \subseteq DOMAIN Added(r, k)
                    /\ Added(r, k).plugin = ss_plugin(SsCaseOf[input_text[r]]).name
                    /\ Added(r, k).plugin_opts = ss_plugin(SsCaseOf[input_text[r]]).opts

\* a plugin value with several ";" is answered with its name and the rest
C19_Witness ==
    /\ input_text[1] \in DOMAIN SsCaseOf
    /\ ss_plugin(SsCaseOf[input_text[1]]).raw = "obfs-local%3Bobfs%3Dhttp%3Bobfs-host%3Dx"
    /\ Len(responses[1]) >= 1
    /\ OneAdded(1, 1)
    /\ Added(1, 1).plugin = "obfs-local"
    /\ Added(1, 1).plugin_opts = "obfs=http;obfs-host=x"

\* the tag of an ss link by its parts
ss_tag(c) ==
    "Shadowsocks - " \o (IF c.fragment = <<>> THEN "ss-host-8388"
                         ELSE IF c.fragment = <<"Node%20SS">> THEN "Node SS" ELSE c.fragment[1])

group_of_template(document, i) ==
    /\ "outbounds" \in DOMAIN loaded.outbounds[i]
    /\ IsList(loaded.outbounds[i].outbounds)
    /\ "outbounds" \in DOMAIN document.outbounds[i]
    /\ IsList(document.outbounds[i].outbounds)

\* the references the conversion added to the list of entry i: those after
\* the template's own
added_refs(document, i) ==
    SubSeq(document.outbounds[i].outbounds.list,
           Len(loaded.outbounds[i].outbounds.list) + 1,
           Len(document.outbounds[i].outbounds.list))

\* tag is the tag of an entry of the document
tag_of_entry(document, tag) ==
    \E e \in 1..Len(document.outbounds) :
        "tag" \in DOMAIN document.outbounds[e] /\ document.outbounds[e].tag = tag

\* every reference added to a list of the document names an entry of it
references_resolve(document) ==
    /\ Len(document.outbounds) >= Len(loaded.outbounds)
    /\ \A i \in 1..Len(loaded.outbounds) :
          group_of_template(document, i) =>
              \A j \in 1..Len(added_refs(document, i)) : tag_of_entry(document, added_refs(document, i)[j])

(***************************************************************************)
(* C21: referential integrity of the group lists.  At every point of a     *)
(* batch and in every returned document, each tag the conversion added to  *)
(* a group's reference list is the tag of at least one entry of the        *)
(* document's outbounds array, also when the registration raised after it  *)
(* had extended some of the lists.                                         *)
(***************************************************************************)
C21_ReferencesResolve ==
    /\ \A n \in DOMAIN objs : references_resolve(objs[n])
    /\ \A r \in Requests : \A k \in 1..Len(responses[r]) :
          HasDocument(responses[r][k]) => references_resolve(Document(responses[r][k]))

\* a returned document of two lines with different tags: the registration
\* of each raised after Manual's list had received the tag, and both tags
\* name an appended entry
C21_Witness ==
    /\ variant = "form"
    /\ loaded = TemplateTagless
    /\ Len(responses[1]) > 0
    /\ HasDocument(responses[1][1])
    /\ added_refs(Document(responses[1][1]), 1) = <<"Trojan - Node1", "VMess - X">>
    /\ added_refs(Document(responses[1][1]), 3) = <<>>
    /\ Len(Appended(Document(responses[1][1]))) = 2
    /\ Appended(Document(responses[1][1]))[1].tag = "Trojan - Node1"
    /\ Appended(Document(responses[1][1]))[2].tag = "VMess - X"

\* the tags of the outbounds, in their order
tags_of(outbounds) == [i \in 1..Len(outbounds) |-> outbounds[i].tag]

\* the place where tag first occurs among tags
first_occurrence(tags, tag) ==
    CHOOSE i \in 1..Len(tags) : tags[i] = tag /\ \A j \in 1..(i - 1) : tags[j] # tag

\* refs are tags of the input, in the order in which they first occur in it
in_first_occurrence_order(refs, tags) ==
    /\ \A j \in 1..Len(refs) : \E i \in 1..Len(tags) : tags[i] = refs[j]
    /\ \A j, k \in 1..Len(refs) :
          j < k => first_occurrence(tags, refs[j]) < first_occurrence(tags, refs[k])

\* the document after the lines given: the template's entries first, then
\* the outbounds of the lines in the order of the lines, and in each group the
\* added references in the order in which their tags first occur
in_input_order(document, built) ==
    /\ Len(document.outbounds) >= Len(loaded.outbounds)
    /\ \A i \in 1..Len(loaded.outbounds) : extends_entry(document.outbounds[i], loaded.outbounds[i])
    /\ Appended(document) = built
    /\ \A i \in 1..Len(loaded.outbounds) :
          group_of_template(document, i) => in_first_occurrence_order(added_refs(document, i), tags_of(built))

\* at every point of a batch and in every returned document the entries and
\* the references stand in the order of the input
order_of_input ==
    /\ \A r \in Requests :
          pc[r] = "loop" =>
              in_input_order(objs[template_copy[r]],
                             outbounds_of(variant, SubSeq(config_lines[r], 1, pos[r] - 1), 1))
    /\ \A r \in Requests : \A k \in 1..Len(responses[r]) :
          HasDocument(responses[r][k]) =>
              in_input_order(Document(responses[r][k]),
                             outbounds_of(variant, config_lines_of(input_text[r]), 1))

\* a line leaves every entry the document had at its place, with its fields
\* and with the references it had first in its list
earlier_entries_stay ==
    \A r \in Requests :
        LinePassed(r) =>
            /\ Len(After(r).outbounds) >= Len(Before(r).outbounds)
            /\ \A i \in 1..Len(Before(r).outbounds) :
                  extends_entry(After(r).outbounds[i], Before(r).outbounds[i])

(***************************************************************************)
(* C22: order is preserved.  The outbounds a batch appends stand after all *)
(* entries of the template, in the order of their input lines; in each     *)
(* group the references the batch added stand in the order in which their  *)
(* tags first occurred in the input; and no line reorders or removes what  *)
(* an earlier line left in the document.                                   *)
(***************************************************************************)
C22_OrderPreserved == []order_of_input /\ [][earlier_entries_stay]_vars

\* a returned document of two lines: their outbounds after the template's
\* entries and their tags in Manual's list, both in the order of the lines
C22_Witness ==
    /\ loaded = TemplateUsual
    /\ config_lines_of(input_text[1]) = <<VlessLink, TrojanLink>>
    /\ Len(responses[1]) > 0
    /\ HasDocument(responses[1][1])
    /\ tags_of(Appended(Document(responses[1][1]))) = <<"VLess - MyNode", "Trojan - Node1">>
    /\ Document(responses[1][1]).outbounds[1].outbounds = List(<<"Latency", "direct", "VLess - MyNode", "Trojan - Node1">>)
    /\ Document(responses[1][1]).outbounds[2].outbounds = List(<<"VLess - MyNode", "Trojan - Node1">>)

====
